---- MODULE Spec2Model ----
(***************************************************************************)
(* Reading reconciliation and aggregation pipeline of Backend_CMR.         *)
(*                                                                         *)
(* The model has the external event store (a flat collection of reading    *)
(* leaves with their _migration sidecar), the aggregated_locations table,  *)
(* and a small number of asynchronous tasks.  A task is a flag-driven      *)
(* batch run (runFlaggedReadingsSync), a threshold-driven batch run        *)
(* (syncReadingsToAggregatedLocations), a watcher handler                  *)
(* (startFlaggedReadingsWatcher.handle) or a bare call of                  *)
(* ingestAggregatedEvent.  One action is the code between two awaits.      *)
(*                                                                         *)
(* Units: coordinates are integers in 1e-5 degree, vibration in 1e-1,      *)
(* speed in km/h, time in milliseconds (offsets from an epoch, so that     *)
(* they stay within TLC's integers).                                       *)
(***************************************************************************)
EXTENDS Integers, Sequences, FiniteSets, TLC

\* ------------------------------------------------------------------ bounds
NumProcs == 2
NumKeys == 2
MaxStarts == 3
MaxFailures == 2
MaxIngests == 3
TsBase == 10000
TsStep == 3000
NumReadings == 3
MaxOver == 2

Procs == 1..NumProcs
Keys == 1..NumKeys

\* The encoding of a non-finite number (NaN) in an integer field.
NaN == -99999999

IsFinite(x) == x # NaN

Abs(x) == IF x < 0 THEN -x ELSE x

Min(a, b) == IF a < b THEN a ELSE b

\* --------------------------------------------------- detector thresholds
MIN_SPEED == 0
SPEED_NOISE == 3
PEAK_DELTA == 35
Z_MIN_THRESHOLD == 80
COOLDOWN_MS == 4000
POTHOLE_HIGH_Z == 120
PATCHY_MIN == 20
PATCHY_MAX == 60
PATCHY_DURATION == 3000
PATCHY_RESET_MS == 800

\* ------------------------------------------------------------- severities
severityOrder(s) == CASE s = "Low" -> 1 [] s = "Medium" -> 2 [] s = "High" -> 3

mapVibrationToSeverity(v) ==
  IF ~IsFinite(v) THEN "Low"
  ELSE IF Abs(v) >= 90 THEN "High"
  ELSE IF Abs(v) >= 70 THEN "Medium"
  ELSE "Low"

mapPotholeSeverityFromZ_AlwaysMedium(zCorrected) == "Medium"

mapPotholeSeverityFromZ(zCorrected) ==
  IF zCorrected >= POTHOLE_HIGH_Z THEN "High" ELSE "Medium"

\* ------------------------------------------------------ payload accessors
getLat(reading) == reading.lat

getLon(reading) == reading.lon

getVibration(reading) == IF IsFinite(reading.vib) THEN reading.vib ELSE 0

getFlag(reading, name) ==
  IF name = "potholeFlag" THEN reading.potholeFlag ELSE reading.patchyFlag

isGpsLocked(reading) == reading.gpsFix

\* null is 0.  Times are millisecond offsets, so the seconds-to-milliseconds
\* branch is not taken.
normalizeUnixMs(ts) == IF ~IsFinite(ts) \/ ts <= 0 THEN 0 ELSE ts

\* The wall clock while a run is under way (Date.now()): later than the
\* timestamp of every stored reading.
DateNow == TsBase + TsStep * (NumKeys + NumReadings + 1)

\* reading.ts is the payload timestamp or, without one, the leaf key read as
\* a timestamp; 0 when the leaf has neither.
eventTimestampMs(key, reading) ==
  IF normalizeUnixMs(reading.ts) # 0 THEN normalizeUnixMs(reading.ts)
  ELSE DateNow

coerceEventTimestampMs(key, reading) == normalizeUnixMs(reading.ts)

\* const timestampMs = coerceEventTimestampMs(key, reading) || Date.now()
processTimestampMs(key, reading) ==
  IF coerceEventTimestampMs(key, reading) # 0
    THEN coerceEventTimestampMs(key, reading)
  ELSE DateNow

computeSpeedKmh(rawSpeed) ==
  LET sp == IF IsFinite(rawSpeed) THEN rawSpeed ELSE 0
  IN IF sp < SPEED_NOISE THEN 0 ELSE sp

\* validateReadingPayload: "" when the payload is valid, else the message.
validateReadingPayload(payload) ==
  IF ~IsFinite(payload.lat) \/ ~IsFinite(payload.lon)
    THEN "Missing/invalid Latitude/Longitude"
  ELSE IF payload.lat = 0 \/ payload.lon = 0
    THEN "Denied: GPS not locked (Latitude/Longitude is 0)"
  ELSE IF payload.lat < -9000000 \/ payload.lat > 9000000
          \/ payload.lon < -18000000 \/ payload.lon > 18000000
    THEN "Denied: Latitude/Longitude out of range"
  ELSE ""

\* toFixed(4) of a coordinate given in 1e-5 degree, in 1e-4 degree.
toFixed4(x) == IF x >= 0 THEN (x + 5) \div 10 ELSE -((-x + 5) \div 10)

gridIdOf(lat, lon) == <<toFixed4(lat), toFixed4(lon)>>

\* ------------------------------------------------------------ the sidecar
NoMigration == [status |-> "none", processed |-> FALSE, error |-> "", type |-> <<>>]

DeniedSidecar(msg) ==
  [status |-> "denied", processed |-> TRUE, error |-> msg, type |-> <<>>]

MigratedSidecar(types) ==
  [status |-> "migrated", processed |-> TRUE, error |-> "", type |-> types]

isAlreadyProcessed_DeniedToo(reading) ==
  reading.mig.status \in {"migrated", "denied"}

isAlreadyProcessed(reading) == reading.mig.status = "migrated"

\* ------------------------------------------------- the payloads of a leaf
Payload(pf, qf, la, lo, v, sp, fix) ==
  [potholeFlag |-> pf, patchyFlag |-> qf, lat |-> la, lon |-> lo,
   vib |-> v, speed |-> sp, gpsFix |-> fix]

Payloads ==
  { Payload(TRUE, TRUE, 1297134, 7759463, 100, 20, TRUE),
    Payload(TRUE, FALSE, 1297133, 7759464, 80, 20, TRUE),
    Payload(FALSE, TRUE, 1297134, 7759463, 30, 20, TRUE),
    Payload(FALSE, FALSE, 1297134, 7759463, 100, 20, TRUE),
    Payload(TRUE, FALSE, 0, 7759463, 100, 20, TRUE),
    Payload(TRUE, FALSE, NaN, 7759463, 100, 20, TRUE) }

TsOf(k) == TsBase + TsStep * k

Leaf(k, p) ==
  [potholeFlag |-> p.potholeFlag, patchyFlag |-> p.patchyFlag, lat |-> p.lat,
   lon |-> p.lon, vib |-> p.vib, speed |-> p.speed, gpsFix |-> p.gpsFix,
   ts |-> TsOf(k), mig |-> NoMigration]

\* ------------------------------------------------------------------ state
VARIABLES
  store,       \* external event store: leaf key -> payload and _migration
  table,       \* aggregated_locations: the committed rows, by insertion id
  uniqueGrid,  \* whether the table's schema has a UNIQUE index on grid_id
  proc,        \* the asynchronous tasks, each at one await
  inFlight,    \* the watcher's in-flight set (leaf keys of one collection)
  nStarts,     \* tasks started so far
  nFailures,   \* storage failures injected so far
  commits,     \* history: committed upserts, per event type
  aggBy,       \* history: upserts committed by tasks with reprocess=false,
               \*          per source leaf and event type
  everMigrated, \* history: leaves whose sidecar was once written migrated
  pool,        \* the connection pool as calls followed await by await use
               \* it: connections handed out and given back so far
  merged,      \* history: the events those calls committed, in order
  input,       \* the arguments of a function applied on its own, or the
               \* stored records field by field (else <<>>)
  output       \* its result (<<>> before it is applied)

vars == <<store, table, uniqueGrid, proc, inFlight, nStarts, nFailures,
          commits, aggBy, everMigrated, pool, merged, input, output>>

EventTypes == {"pothole", "patchy"}

NoEvent ==
  [type |-> "none", latitude |-> 0, longitude |-> 0, severity |-> "Low",
   timestampMs |-> 0]

Event(t, la, lo, sev, ts) ==
  [type |-> t, latitude |-> la, longitude |-> lo, severity |-> sev,
   timestampMs |-> ts]

NoDetector ==
  [prevZ |-> 0, lastDetectionTime |-> 0, patchyStart |-> 0,
   patchyAlert |-> FALSE, lastPatchyVibrationTime |-> 0]

NoResults ==
  [scanned |-> 0, candidates |-> 0, flagged |-> 0, migrated |-> 0,
   denied |-> 0, errors |-> 0, potholeEvents |-> 0, patchyEvents |-> 0,
   items |-> <<>>]

NoUpdate == [key |-> 0, mig |-> NoMigration]

NoPool == [acquired |-> 0, released |-> 0]

IdleProc ==
  [kind |-> "none", pc |-> "idle", dryRun |-> FALSE, reprocess |-> FALSE,
   snap |-> <<>>, cands |-> <<>>, idx |-> 0, evs |-> <<>>, nDone |-> 0,
   sel |-> "none", upd |-> NoUpdate, inTry |-> FALSE, res |-> NoResults,
   det |-> NoDetector, err |-> "", limit |-> 0]

\* The wall clock of the relational store (NOW()), in seconds.
NowSql == (TsBase + TsStep * (NumKeys + 1)) \div 1000

Init ==
  /\ store \in [Keys -> {Leaf(k, p) : k \in Keys, p \in Payloads}]
  /\ \A k \in Keys : store[k].ts = TsOf(k)
  /\ table = <<>>
  /\ uniqueGrid \in BOOLEAN
  /\ proc = [p \in Procs |-> IdleProc]
  /\ inFlight = {}
  /\ nStarts = 0
  /\ nFailures = 0
  /\ commits = [t \in EventTypes |-> 0]
  /\ aggBy = [k \in Keys |-> [t \in EventTypes |-> 0]]
  /\ everMigrated = {}
  /\ pool = NoPool
  /\ merged = <<>>
  /\ input = <<>>
  /\ output = <<>>

\* ------------------------------------------------- the Grid Aggregator
EventGrid(ev) == gridIdOf(ev.latitude, ev.longitude)

RowsOf(tbl, g) == {i \in DOMAIN tbl : tbl[i].gridId = g}

\* const severity = event.severity || "Low"
severityOf(ev) == IF ev.severity = "" THEN "Low" ELSE ev.severity

NewHighest_Incoming(severity, current) == severity

NewHighest(severity, current) ==
  IF severityOrder(severity) > severityOrder(current) THEN severity ELSE current

tsSqlSeconds(ev) == normalizeUnixMs(ev.timestampMs) \div 1000

ReportedAt_AlwaysNow(ev) == NowSql

ReportedAt(ev) == IF tsSqlSeconds(ev) # 0 THEN tsSqlSeconds(ev) ELSE NowSql

\* UPDATE aggregated_locations SET ... WHERE grid_id = ?: the counters are
\* incremented relative to the row as committed, highest_severity is set to
\* the value computed from the earlier SELECT.
UpdateRows_OverwritesCoordinates(tbl, ev, newHighest) ==
  [i \in DOMAIN tbl |->
     IF tbl[i].gridId = EventGrid(ev)
       THEN [tbl[i] EXCEPT
               !.latitude = ev.latitude, !.longitude = ev.longitude,
               !.totalPotholes = @ + (IF ev.type = "pothole" THEN 1 ELSE 0),
               !.totalPatchy = @ + (IF ev.type = "patchy" THEN 1 ELSE 0),
               !.highestSeverity = newHighest,
               !.reportCount = @ + 1,
               !.lastReportedAt = ReportedAt(ev)]
       ELSE tbl[i]]

UpdateRows(tbl, ev, newHighest) ==
  [i \in DOMAIN tbl |->
     IF tbl[i].gridId = EventGrid(ev)
       THEN [tbl[i] EXCEPT
               !.totalPotholes = @ + (IF ev.type = "pothole" THEN 1 ELSE 0),
               !.totalPatchy = @ + (IF ev.type = "patchy" THEN 1 ELSE 0),
               !.highestSeverity = newHighest,
               !.reportCount = @ + 1,
               !.lastReportedAt = ReportedAt(ev)]
       ELSE tbl[i]]

InsertRow(tbl, ev) ==
  Append(tbl,
    [gridId |-> EventGrid(ev), latitude |-> ev.latitude,
     longitude |-> ev.longitude,
     totalPotholes |-> IF ev.type = "pothole" THEN 1 ELSE 0,
     totalPatchy |-> IF ev.type = "patchy" THEN 1 ELSE 0,
     highestSeverity |-> severityOf(ev), reportCount |-> 1,
     firstReportedAt |-> ReportedAt(ev), lastReportedAt |-> ReportedAt(ev),
     status |-> "pending"])

\* The write of upsertAggregatedLocationEvent, decided by what its SELECT saw.
upsertWrite(tbl, ev, sel) ==
  IF sel # "none" THEN UpdateRows(tbl, ev, NewHighest(severityOf(ev), sel))
  ELSE InsertRow(tbl, ev)

\* The event a task is ingesting, and the leaf it comes from (0: none).
CurEvent(pr) == Head(pr.evs)

CurKey(pr) == IF pr.idx \in DOMAIN pr.cands THEN pr.cands[pr.idx] ELSE 0

\* A row lock: a task that has issued its INSERT/UPDATE holds the rows of the
\* grid until it commits or rolls back.
Locked(p, g) ==
  \E q \in Procs \ {p} :
     /\ proc[q].pc = "commit"
     /\ EventGrid(CurEvent(proc[q])) = g

\* ------------------------------------------- classification of one leaf
Item(k, st, why, ts, ss) ==
  [key |-> k, status |-> st, reason |-> why, types |-> ts, sevs |-> ss]

\* The flag-driven checks, in the code's order: "" when the leaf is eligible.
FlagDenial(reading) ==
  IF ~getFlag(reading, "potholeFlag") /\ ~getFlag(reading, "patchyFlag")
    THEN "Flags false (potholeFlag & patchyFlag)"
  ELSE IF ~isGpsLocked(reading) \/ getLat(reading) = 0 \/ getLon(reading) = 0
    THEN "gps_not_locked_or_zero_coords"
  ELSE IF ~IsFinite(getLat(reading)) \/ ~IsFinite(getLon(reading))
    THEN "invalid_coordinates"
  ELSE ""

eventsToInsert(key, reading) ==
  (IF getFlag(reading, "potholeFlag")
     THEN <<Event("pothole", getLat(reading), getLon(reading),
                  mapVibrationToSeverity(getVibration(reading)),
                  eventTimestampMs(key, reading))>>
     ELSE <<>>)
  \o
  (IF getFlag(reading, "patchyFlag")
     THEN <<Event("patchy", getLat(reading), getLon(reading), "Low",
                  eventTimestampMs(key, reading))>>
     ELSE <<>>)

TypesOf(evs) == [i \in DOMAIN evs |-> evs[i].type]

SevsOf(evs) == [i \in DOMAIN evs |-> evs[i].severity]

\* The threshold detector on one reading: the new detector state and the
\* detected event (NoEvent when none).
\* else if (timestampMs - lastPatchyVibrationTime > PATCHY_RESET_MS)
patchyResetDue_Always(timestampMs, lastPatchyVibrationTime) == TRUE

patchyResetDue(timestampMs, lastPatchyVibrationTime) ==
  timestampMs - lastPatchyVibrationTime > PATCHY_RESET_MS

InPatchyBand(speed, z) ==
  speed >= MIN_SPEED /\ IsFinite(z) /\ z >= PATCHY_MIN /\ z < PATCHY_MAX

\* timestampMs - patchyStart >= PATCHY_DURATION && !patchyAlert
PatchyDue_NoLatch(timestampMs, patchyStart, patchyAlert) ==
  timestampMs - patchyStart >= PATCHY_DURATION

PatchyDue(timestampMs, patchyStart, patchyAlert) ==
  timestampMs - patchyStart >= PATCHY_DURATION /\ ~patchyAlert

\* lastDetectionTime = timestampMs, inside the pothole branch only.
ClockAfter_EveryReading(potholeFires, timestampMs, lastDetectionTime) ==
  timestampMs

ClockAfter(potholeFires, timestampMs, lastDetectionTime) ==
  IF potholeFires THEN timestampMs ELSE lastDetectionTime

\* timestampMs - lastDetectionTime > COOLDOWN_MS
cooldownOver_Always(timestampMs, lastDetectionTime) == TRUE

cooldownOver(timestampMs, lastDetectionTime) ==
  timestampMs - lastDetectionTime > COOLDOWN_MS

\* if (!patchyStart) patchyStart = timestampMs
sustainedStart_Restarts(patchyStart, timestampMs) == timestampMs

sustainedStart(patchyStart, timestampMs) ==
  IF patchyStart = 0 THEN timestampMs ELSE patchyStart

Detect(det, key, reading) ==
  LET timestampMs == processTimestampMs(key, reading)
      speed == computeSpeedKmh(reading.speed)
      zCorrected == IF IsFinite(reading.vib) THEN Abs(reading.vib) ELSE NaN
      delta == IF IsFinite(zCorrected) THEN Abs(zCorrected - det.prevZ) ELSE NaN
      inBand == InPatchyBand(speed, zCorrected)
      start1 == IF inBand THEN sustainedStart(det.patchyStart, timestampMs)
                ELSE det.patchyStart
      patchyFires ==
        inBand /\ PatchyDue(timestampMs, start1, det.patchyAlert)
      reset ==
        ~inBand /\ patchyResetDue(timestampMs, det.lastPatchyVibrationTime)
      potholeFires ==
        /\ ~patchyFires
        /\ speed >= MIN_SPEED
        /\ IsFinite(zCorrected)
        /\ delta > PEAK_DELTA
        /\ zCorrected >= Z_MIN_THRESHOLD
        /\ cooldownOver(timestampMs, det.lastDetectionTime)
  IN [det |->
        [prevZ |-> IF IsFinite(zCorrected) THEN zCorrected ELSE det.prevZ,
         lastDetectionTime |->
           ClockAfter(potholeFires, timestampMs, det.lastDetectionTime),
         patchyStart |-> IF reset THEN 0 ELSE start1,
         patchyAlert |->
           IF patchyFires THEN TRUE
           ELSE IF reset THEN FALSE ELSE det.patchyAlert,
         lastPatchyVibrationTime |->
           IF inBand THEN timestampMs ELSE det.lastPatchyVibrationTime],
      ev |->
        IF patchyFires
          THEN Event("patchy", reading.lat, reading.lon, "Low", timestampMs)
        ELSE IF potholeFires
          THEN Event("pothole", reading.lat, reading.lon,
                     mapPotholeSeverityFromZ(zCorrected), timestampMs)
        ELSE NoEvent]

\* --------------------------------------------------- candidate selection
RECURSIVE InsertSorted(_, _, _)
InsertSorted(sorted, k, ts) ==
  IF sorted = <<>> THEN <<k>>
  ELSE IF ts[Head(sorted)] <= ts[k]
    THEN <<Head(sorted)>> \o InsertSorted(Tail(sorted), k, ts)
  ELSE <<k>> \o sorted

\* A stable ascending sort of keys by ts, the sort timestamp of each key.
RECURSIVE SortByTs(_, _)
SortByTs(ks, ts) ==
  IF ks = <<>> THEN <<>>
  ELSE InsertSorted(SortByTs(SubSeq(ks, 1, Len(ks) - 1), ts), ks[Len(ks)], ts)

\* The comparators' keys: eventTimestampMs(...) || 0 in the flag-driven run,
\* coerceEventTimestampMs(...) || 0 in the threshold-driven run.
FlagSortTs(snap) == [k \in DOMAIN snap |-> eventTimestampMs(k, snap[k])]

ThrSortTs(all) == [k \in DOMAIN all |-> coerceEventTimestampMs(k, all[k])]

RECURSIVE KeysWhere(_, _)
KeysWhere(n, keep) ==
  IF n = 0 THEN <<>>
  ELSE KeysWhere(n - 1, keep) \o (IF n \in keep THEN <<n>> ELSE <<>>)

\* Array.prototype.slice(start, end): a negative index counts from the end.
JsSliceIndex(i, len) ==
  IF i < 0 THEN (IF len + i < 0 THEN 0 ELSE len + i) ELSE Min(i, len)

JsSlice(seq, start, end) ==
  LET a == JsSliceIndex(start, Len(seq))
      b == JsSliceIndex(end, Len(seq))
  IN IF a >= b THEN <<>> ELSE SubSeq(seq, a + 1, b)

\* The limit option: parseInt(limit ?? default, 10) || default, capped.
FLAG_LIMIT_DEFAULT == 500
FLAG_LIMIT_MAX == 5000
THR_LIMIT_DEFAULT == 200
THR_LIMIT_MAX == 2000

\* A raw option: given or not, and its value (NaN when it is not a number).
RawOption(given, value) == [given |-> given, value |-> value]

parseLimit(raw, default, max) ==
  LET n == IF raw.given THEN raw.value ELSE default
  IN Min(IF ~IsFinite(n) \/ n = 0 THEN default ELSE n, max)

flagLimit(raw) == parseLimit(raw, FLAG_LIMIT_DEFAULT, FLAG_LIMIT_MAX)

thrLimit(raw) == parseLimit(raw, THR_LIMIT_DEFAULT, THR_LIMIT_MAX)

\* runFlaggedReadingsSync: the leaves not already processed.
flattened(snap, reprocess) ==
  KeysWhere(Len(snap),
    {k \in DOMAIN snap : reprocess \/ ~isAlreadyProcessed(snap[k])})

\* Sorted by timestamp, the last `limit` of them.
FlagCandidates(snap, reprocess, limit) ==
  LET sorted == SortByTs(flattened(snap, reprocess), FlagSortTs(snap))
  IN JsSlice(sorted, -limit, Len(sorted))

pickPending_DeniedEligible(all, reprocess) ==
  KeysWhere(Len(all),
    {k \in DOMAIN all : reprocess \/ all[k].mig.status # "migrated"})

pickPendingFirebaseItems(all, reprocess) ==
  KeysWhere(Len(all),
    {k \in DOMAIN all :
       \/ reprocess
       \/ /\ all[k].mig.status \notin {"migrated", "denied"}
          /\ all[k].mig.processed # TRUE})

\* Sorted by timestamp, the first `limit` of them.
ThrCandidates(all, reprocess, limit) ==
  LET sorted == SortByTs(pickPendingFirebaseItems(all, reprocess), ThrSortTs(all))
  IN JsSlice(sorted, 0, limit)

\* ------------------------------------------------ continuations of a task
Running(pr) == pr.pc \notin {"idle", "done", "aborted"}

\* The next candidate of a batch run, or its end.
Advance(pr) ==
  IF pr.idx + 1 > Len(pr.cands)
    THEN [pr EXCEPT !.pc = "done", !.idx = @ + 1, !.evs = <<>>, !.nDone = 0,
                    !.sel = "none", !.upd = NoUpdate, !.inTry = FALSE,
                    !.snap = <<>>]
    ELSE [pr EXCEPT !.pc = "loop", !.idx = @ + 1, !.evs = <<>>, !.nDone = 0,
                    !.sel = "none", !.upd = NoUpdate, !.inTry = FALSE]

\* The end of a watcher handler or of a bare ingest call.
Finish(pr, msg) ==
  [IdleProc EXCEPT !.kind = pr.kind, !.pc = "done", !.err = msg]

\* A sidecar write to issue next; caught says whether it is inside the try.
AwaitUpdate(pr, mig, caught) ==
  [pr EXCEPT !.pc = "update", !.upd = [key |-> CurKey(pr), mig |-> mig],
             !.inTry = caught, !.sel = "none"]

\* The catch block of a batch run's candidate.
CatchError(pr, msg) ==
  LET it == Item(CurKey(pr), "error", msg, <<>>, <<>>)
      res1 == IF pr.kind = "flag"
                THEN [pr.res EXCEPT !.denied = @ + 1, !.items = Append(@, it)]
                ELSE [pr.res EXCEPT !.errors = @ + 1, !.items = Append(@, it)]
  IN AwaitUpdate([pr EXCEPT !.res = res1, !.evs = <<>>], DeniedSidecar(msg), FALSE)

\* ingestAggregatedEvent threw: the error reaches the caller.
AfterIngestErr_WatchDenies(pr, msg) ==
  IF pr.kind \in {"flag", "thr"} THEN CatchError(pr, msg)
  ELSE AwaitUpdate(pr, DeniedSidecar(msg), FALSE)

AfterIngestErr(pr, msg) ==
  IF pr.kind \in {"flag", "thr"} THEN CatchError(pr, msg)
  ELSE Finish(pr, msg)

\* ingestAggregatedEvent returned.
AfterIngestOk(pr) ==
  LET rest == Tail(pr.evs)
      n == pr.nDone + 1
      reading == pr.snap[CurKey(pr)]
      all == eventsToInsert(CurKey(pr), reading)
  IN CASE pr.kind = "raw" -> Finish(pr, "")
       [] pr.kind = "thr" ->
            AwaitUpdate(
              [pr EXCEPT !.nDone = n,
                 !.res = [@ EXCEPT !.migrated = @ + 1,
                            !.items = Append(@, Item(CurKey(pr), "migrated", "",
                                         <<CurEvent(pr).type>>,
                                         <<CurEvent(pr).severity>>))]],
              MigratedSidecar(<<CurEvent(pr).type>>), TRUE)
       [] pr.kind = "flag" /\ rest # <<>> ->
            [pr EXCEPT !.pc = "select", !.evs = rest, !.nDone = n, !.sel = "none"]
       [] pr.kind = "flag" /\ rest = <<>> ->
            AwaitUpdate(
              [pr EXCEPT !.nDone = n,
                 !.res = [@ EXCEPT !.migrated = @ + Len(all),
                            !.potholeEvents = @ + (IF reading.potholeFlag THEN 1 ELSE 0),
                            !.patchyEvents = @ + (IF reading.patchyFlag THEN 1 ELSE 0)]],
              MigratedSidecar(TypesOf(all)), TRUE)
       [] pr.kind = "watch" /\ rest # <<>> ->
            [pr EXCEPT !.pc = "select", !.evs = rest, !.nDone = n, !.sel = "none"]
       [] pr.kind = "watch" /\ rest = <<>> ->
            IF reading.mig.status # "migrated"
              THEN AwaitUpdate([pr EXCEPT !.nDone = n],
                               MigratedSidecar(TypesOf(all)), TRUE)
              ELSE Finish(pr, "")

\* itemRef.update resolved.
AfterUpdateOk(pr) ==
  CASE pr.kind = "flag" /\ pr.upd.mig.status = "migrated" ->
         Advance([pr EXCEPT !.res.items =
                    Append(@, Item(CurKey(pr), "migrated", "", pr.upd.mig.type,
                      SevsOf(eventsToInsert(CurKey(pr), pr.snap[CurKey(pr)]))))])
    [] pr.kind = "watch" -> Finish(pr, "")
    [] OTHER -> Advance(pr)

\* itemRef.update rejected.
AfterUpdateErr(pr, msg) ==
  CASE pr.kind = "watch" -> Finish(pr, msg)
    [] pr.inTry -> CatchError(pr, msg)
    [] OTHER -> [pr EXCEPT !.pc = "aborted", !.err = msg, !.upd = NoUpdate,
                           !.inTry = FALSE, !.snap = <<>>]

\* The in-flight set once a task has taken a step (finally: delete).
FlightAfter_NeverDeletes(pr1, pr0) == inFlight

FlightAfter(pr1, pr0) ==
  IF pr0.kind = "watch" /\ ~Running(pr1) THEN inFlight \ {CurKey(pr0)}
  ELSE inFlight

\* ----------------------------------------------------------- the actions
\* A caller invokes ingestAggregatedEvent(ev) outside any batch or watcher.
StartIngest(p, ev) ==
  /\ ~Running(proc[p])
  /\ nStarts < MaxIngests
  /\ nStarts' = nStarts + 1
  /\ proc' = [proc EXCEPT ![p] =
       [IdleProc EXCEPT !.kind = "raw", !.pc = "select", !.evs = <<ev>>]]
  /\ UNCHANGED <<pool, merged, input, output, store, table, uniqueGrid, inFlight, nFailures, commits,
                 aggBy, everMigrated>>

\* upsertAggregatedLocationEvent: SELECT id, highest_severity WHERE grid_id.
\* A plain SELECT takes no lock and sees the committed rows.
IngestSelect(p) ==
  LET pr == proc[p]
      ev == CurEvent(pr)
      rows == RowsOf(table, EventGrid(ev))
  IN /\ pr.pc = "select"
     /\ IF ~IsFinite(ev.latitude) \/ ~IsFinite(ev.longitude)
          THEN proc' = [proc EXCEPT ![p] =
                 AfterIngestErr(pr, "Invalid latitude/longitude for aggregated event")]
          ELSE IF rows = {}
            THEN proc' = [proc EXCEPT ![p] = [pr EXCEPT !.pc = "write", !.sel = "none"]]
            ELSE \E i \in rows :
                   proc' = [proc EXCEPT ![p] =
                     [pr EXCEPT !.pc = "write", !.sel = table[i].highestSeverity]]
     /\ inFlight' = FlightAfter(proc'[p], pr)
     /\ UNCHANGED <<pool, merged, input, output, store, table, uniqueGrid, nStarts, nFailures, commits,
                    aggBy, everMigrated>>

\* The INSERT or UPDATE is issued: it waits for the row lock, and an INSERT
\* of a grid_id that exists fails when the schema has the UNIQUE index.
IngestWrite(p) ==
  LET pr == proc[p]
      ev == CurEvent(pr)
      g == EventGrid(ev)
  IN /\ pr.pc = "write"
     /\ ~Locked(p, g)
     /\ IF pr.sel = "none" /\ uniqueGrid /\ RowsOf(table, g) # {}
          THEN proc' = [proc EXCEPT ![p] = AfterIngestErr(pr, "ER_DUP_ENTRY")]
          ELSE proc' = [proc EXCEPT ![p] = [pr EXCEPT !.pc = "commit"]]
     /\ inFlight' = FlightAfter(proc'[p], pr)
     /\ UNCHANGED <<pool, merged, input, output, store, table, uniqueGrid, nStarts, nFailures, commits,
                    aggBy, everMigrated>>

\* connection.commit(): the write becomes visible, the call returns.
IngestCommit(p) ==
  LET pr == proc[p]
      ev == CurEvent(pr)
      k == CurKey(pr)
  IN /\ pr.pc = "commit"
     /\ table' = upsertWrite(table, ev, pr.sel)
     /\ commits' = [commits EXCEPT ![ev.type] = @ + 1]
     /\ aggBy' = IF k \in DOMAIN aggBy /\ ~pr.reprocess
                   THEN [aggBy EXCEPT ![k][ev.type] = @ + 1] ELSE aggBy
     /\ proc' = [proc EXCEPT ![p] = AfterIngestOk(pr)]
     /\ inFlight' = FlightAfter(proc'[p], pr)
     /\ UNCHANGED <<pool, merged, input, output, store, uniqueGrid, nStarts, nFailures, everMigrated>>

\* A query or the commit fails: rollback, release, rethrow.
IngestFail(p) ==
  LET pr == proc[p]
  IN /\ pr.pc \in {"select", "write", "commit"}
     /\ nFailures < MaxFailures
     /\ nFailures' = nFailures + 1
     /\ proc' = [proc EXCEPT ![p] = AfterIngestErr(pr, "storage_error")]
     /\ inFlight' = FlightAfter(proc'[p], pr)
     /\ UNCHANGED <<pool, merged, input, output, store, table, uniqueGrid, nStarts, commits, aggBy, everMigrated>>

\* ref.set({_migration: ...}) would replace the record by the sidecar alone.
updateMigration_AsSet(leaf, mig) ==
  [potholeFlag |-> FALSE, patchyFlag |-> FALSE, lat |-> NaN, lon |-> NaN,
   vib |-> NaN, speed |-> 0, gpsFix |-> TRUE, ts |-> 0, mig |-> mig]

\* ref.update({_migration: ...}) replaces the _migration child and keeps the
\* record's other children.
updateMigration(leaf, mig) == [leaf EXCEPT !.mig = mig]

\* itemRef.update({_migration: ...}): only the sidecar of the leaf changes.
sidecarWrite(p) ==
  LET pr == proc[p]
      k == pr.upd.key
  IN /\ pr.pc = "update"
     /\ store' = [store EXCEPT ![k] = updateMigration(@, pr.upd.mig)]
     /\ everMigrated' = IF pr.upd.mig.status = "migrated"
                          THEN everMigrated \cup {k} ELSE everMigrated
     /\ proc' = [proc EXCEPT ![p] = AfterUpdateOk(pr)]
     /\ inFlight' = FlightAfter(proc'[p], pr)
     /\ UNCHANGED <<pool, merged, input, table, uniqueGrid, nStarts, nFailures, commits, aggBy>>

SidecarUpdate(p) ==
  /\ sidecarWrite(p)
  /\ UNCHANGED output

SidecarUpdateFail(p) ==
  LET pr == proc[p]
  IN /\ pr.pc = "update"
     /\ nFailures < MaxFailures
     /\ nFailures' = nFailures + 1
     /\ proc' = [proc EXCEPT ![p] = AfterUpdateErr(pr, "update_failed")]
     /\ inFlight' = FlightAfter(proc'[p], pr)
     /\ UNCHANGED <<pool, merged, input, output, store, table, uniqueGrid, nStarts, commits, aggBy, everMigrated>>

\* The dryRun option: the branches that write are skipped.
writesDisabled_Never(pr) == FALSE

writesDisabled(pr) == pr.dryRun

\* The tally of a would-migrate candidate in a dry run.
FlagDryTally_OnePerReading(res, reading, evs) ==
  [res EXCEPT !.migrated = @ + 1,
              !.potholeEvents = @ + (IF reading.potholeFlag THEN 1 ELSE 0),
              !.patchyEvents = @ + (IF reading.patchyFlag THEN 1 ELSE 0)]

FlagDryTally(res, reading, evs) ==
  [res EXCEPT !.migrated = @ + Len(evs),
              !.potholeEvents = @ + (IF reading.potholeFlag THEN 1 ELSE 0),
              !.patchyEvents = @ + (IF reading.patchyFlag THEN 1 ELSE 0)]

\* A batch run after its read of the root: its candidates, nothing done yet.
NewRun(kind, dryRun, reprocess, limit, cands, scanned) ==
  [IdleProc EXCEPT
     !.kind = kind, !.dryRun = dryRun, !.reprocess = reprocess,
     !.limit = limit, !.snap = store, !.cands = cands,
     !.idx = 1, !.pc = IF cands = <<>> THEN "done" ELSE "loop",
     !.res = [NoResults EXCEPT !.scanned = scanned, !.candidates = Len(cands)]]

\* runFlaggedReadingsSync up to its loop: ref.once("value"), flatten, filter,
\* sort, slice(-limit).
StartFlagRun(p, dryRun, reprocess, limit) ==
  /\ ~Running(proc[p])
  /\ nStarts < MaxStarts
  /\ nStarts' = nStarts + 1
  /\ proc' = [proc EXCEPT ![p] =
       NewRun("flag", dryRun, reprocess, limit,
              FlagCandidates(store, reprocess, limit),
              Len(flattened(store, reprocess)))]
  /\ UNCHANGED <<pool, merged, input, output, store, table, uniqueGrid, inFlight, nFailures, commits,
                 aggBy, everMigrated>>

\* ref.once("value") rejects: the run ends before it has any candidate and
\* the caller gets the error (HTTP 500 from the request handlers).
RootReadFail(p, kind) ==
  /\ ~Running(proc[p])
  /\ nStarts < MaxStarts
  /\ nFailures < MaxFailures
  /\ nStarts' = nStarts + 1
  /\ nFailures' = nFailures + 1
  /\ proc' = [proc EXCEPT ![p] =
       [IdleProc EXCEPT !.kind = kind, !.pc = "aborted", !.err = "read_failed"]]
  /\ UNCHANGED <<pool, merged, input, output, store, table, uniqueGrid, inFlight, commits, aggBy,
                 everMigrated>>

\* One candidate of runFlaggedReadingsSync, up to its first await.
FlagLoop(p) ==
  LET pr == proc[p]
      k == CurKey(pr)
      reading == pr.snap[k]
      why == FlagDenial(reading)
      evs == eventsToInsert(k, reading)
      flagged == getFlag(reading, "potholeFlag") \/ getFlag(reading, "patchyFlag")
      resDenied ==
        [pr.res EXCEPT !.denied = @ + 1,
                       !.flagged = @ + (IF flagged THEN 1 ELSE 0),
                       !.items = Append(@, Item(k, "denied", why, <<>>, <<>>))]
      resDry ==
        [FlagDryTally(pr.res, reading, evs) EXCEPT
           !.flagged = @ + 1,
           !.items = Append(@, Item(k, "would_migrate", "",
                                    TypesOf(evs), SevsOf(evs)))]
  IN /\ pr.kind = "flag"
     /\ pr.pc = "loop"
     /\ proc' = [proc EXCEPT ![p] =
          IF why # ""
            THEN IF writesDisabled(pr) THEN Advance([pr EXCEPT !.res = resDenied])
                 ELSE AwaitUpdate([pr EXCEPT !.res = resDenied],
                                  DeniedSidecar(why), FALSE)
          ELSE IF writesDisabled(pr) THEN Advance([pr EXCEPT !.res = resDry])
          ELSE [pr EXCEPT !.pc = "select", !.evs = evs, !.nDone = 0,
                          !.res.flagged = @ + 1]]
     /\ UNCHANGED <<pool, merged, input, output, store, table, uniqueGrid, inFlight, nStarts, nFailures,
                    commits, aggBy, everMigrated>>

\* syncReadingsToAggregatedLocations up to its loop: ref.once("value"),
\* pickPendingFirebaseItems, sort, slice(0, limit).
StartThrRun(p, dryRun, reprocess, limit) ==
  /\ ~Running(proc[p])
  /\ nStarts < MaxStarts
  /\ nStarts' = nStarts + 1
  /\ proc' = [proc EXCEPT ![p] =
       NewRun("thr", dryRun, reprocess, limit,
              ThrCandidates(store, reprocess, limit), Len(store))]
  /\ UNCHANGED <<pool, merged, input, output, store, table, uniqueGrid, inFlight, nFailures, commits,
                 aggBy, everMigrated>>

\* One candidate of syncReadingsToAggregatedLocations, up to its first await.
ThrLoop(p) ==
  LET pr == proc[p]
      k == CurKey(pr)
      reading == pr.snap[k]
      invalid == validateReadingPayload(reading)
      d == Detect(pr.det, k, reading)
      why == IF invalid # "" THEN invalid
             ELSE IF d.ev = NoEvent THEN "No pothole/patchy conditions met"
             ELSE ""
      pr1 == IF invalid # "" THEN pr ELSE [pr EXCEPT !.det = d.det]
      resDenied ==
        [pr.res EXCEPT !.denied = @ + 1,
                       !.items = Append(@, Item(k, "denied", why, <<>>, <<>>))]
      resDry ==
        [pr.res EXCEPT !.migrated = @ + 1,
                       !.items = Append(@, Item(k, "would_migrate", "",
                                          <<d.ev.type>>, <<d.ev.severity>>))]
  IN /\ pr.kind = "thr"
     /\ pr.pc = "loop"
     /\ proc' = [proc EXCEPT ![p] =
          IF why # ""
            THEN IF writesDisabled(pr) THEN Advance([pr1 EXCEPT !.res = resDenied])
                 ELSE AwaitUpdate([pr1 EXCEPT !.res = resDenied],
                                  DeniedSidecar(why), FALSE)
          ELSE IF writesDisabled(pr) THEN Advance([pr1 EXCEPT !.res = resDry])
          ELSE [pr1 EXCEPT !.pc = "select", !.evs = <<d.ev>>, !.nDone = 0]]
     /\ UNCHANGED <<pool, merged, input, output, store, table, uniqueGrid, inFlight, nStarts, nFailures,
                    commits, aggBy, everMigrated>>

\* handle(): if (inFlight.has(flightKey)) return.
inFlightHas_Never(k) == FALSE

inFlightHas(k) == k \in inFlight

\* The reason processFlaggedReadingSnapshot returns without processing.
WatchSkip(reading, reprocess) ==
  IF ~reprocess /\ isAlreadyProcessed(reading) THEN "already_migrated"
  ELSE IF ~getFlag(reading, "potholeFlag") /\ ~getFlag(reading, "patchyFlag")
    THEN "flags_false"
  ELSE IF ~isGpsLocked(reading) \/ getLat(reading) = 0 \/ getLon(reading) = 0
    THEN "gps_not_locked_or_zero_coords"
  ELSE IF ~IsFinite(getLat(reading)) \/ ~IsFinite(getLon(reading))
    THEN "invalid_coordinates"
  ELSE ""

\* A child_added / child_changed notification for leaf k reaches handle():
\* the in-flight check, then processFlaggedReadingSnapshot up to its first
\* await.  The snapshot is the leaf as it is when the notification is made.
handleReading(p, k, reprocess) ==
  LET why == WatchSkip(store[k], reprocess)
      pr0 == [IdleProc EXCEPT !.kind = "watch", !.reprocess = reprocess,
                !.cands = <<k>>, !.idx = 1,
                !.snap = [j \in {k} |-> store[k]]]
  IN /\ ~Running(proc[p])
     /\ ~inFlightHas(k)
     /\ nStarts' = nStarts + 1
     /\ IF why # ""
          THEN /\ proc' = [proc EXCEPT ![p] = Finish(pr0, why)]
               /\ inFlight' = inFlight
          ELSE /\ proc' = [proc EXCEPT ![p] =
                    [pr0 EXCEPT !.pc = "select",
                                !.evs = eventsToInsert(k, store[k])]]
               /\ inFlight' = inFlight \cup {k}

WatcherNotify(p, k, reprocess) ==
  /\ nStarts < MaxStarts
  /\ handleReading(p, k, reprocess)
  /\ UNCHANGED <<pool, merged, input, output, store, table, uniqueGrid, nFailures, commits, aggBy, everMigrated>>

\* A notification for a leaf whose handler is in flight: handle() returns at
\* once and the notification is not queued.
WatcherDrop(k) ==
  /\ inFlightHas(k)
  /\ nStarts < MaxStarts
  /\ nStarts' = nStarts + 1
  /\ UNCHANGED <<pool, merged, input, output, store, table, uniqueGrid, proc, inFlight, nFailures, commits,
                 aggBy, everMigrated>>

\* ------------------------------------------------------ specifications
RawEvents ==
  { Event(t, 1297134, 7759463, s, TsOf(1)) :
      t \in EventTypes, s \in {"Low", "Medium", "High"} }

\* Concurrent calls of ingestAggregatedEvent on one grid cell.
InitAgg ==
  /\ Init
  /\ \A k \in Keys : store[k] = Leaf(k, Payload(FALSE, FALSE, 1297134, 7759463, 100, 20, TRUE))

NextAgg ==
  \E p \in Procs :
    \/ \E ev \in RawEvents : StartIngest(p, ev)
    \/ IngestSelect(p)
    \/ IngestWrite(p)
    \/ IngestCommit(p)
    \/ IngestFail(p)

SpecAgg == InitAgg /\ [][NextAgg]_vars

\* The flag-driven batch run and the live watcher running together, as the
\* process-start hook starts them.
BatchProcs == {p \in Procs : p % 2 = 1}

WatchProcs == {p \in Procs : p % 2 = 0}

\* The leaves of the concurrent runs: leaf 1 is flagged with a GPS lock (one
\* or two events), the others are flagged or not.
FlaggedPayloads ==
  { Payload(TRUE, TRUE, 1297134, 7759463, 100, 20, TRUE),
    Payload(TRUE, FALSE, 1297133, 7759464, 80, 20, TRUE) }

OtherPayloads ==
  { Payload(TRUE, FALSE, 1297133, 7759464, 80, 20, TRUE),
    Payload(FALSE, FALSE, 1297134, 7759463, 100, 20, TRUE) }

InitSpec ==
  /\ Init
  /\ \E x \in FlaggedPayloads : store[1] = Leaf(1, x)
  /\ \A k \in Keys \ {1} : \E x \in OtherPayloads : store[k] = Leaf(k, x)

Next ==
  \E p \in Procs :
    \/ /\ p \in BatchProcs
       /\ \E reprocess \in BOOLEAN : StartFlagRun(p, FALSE, reprocess, NumKeys)
    \/ FlagLoop(p)
    \/ /\ p \in WatchProcs
       /\ \E k \in Keys, reprocess \in BOOLEAN : WatcherNotify(p, k, reprocess)
    \/ IngestSelect(p)
    \/ IngestWrite(p)
    \/ IngestCommit(p)
    \/ IngestFail(p)
    \/ SidecarUpdate(p)
    \/ SidecarUpdateFail(p)

Spec == InitSpec /\ [][Next]_vars

\* Batch runs of either driver, one after the other on the same store (no
\* watcher, no device write): task p + 1 starts once task p has ended.
InitRuns ==
  /\ Init
  /\ uniqueGrid

MayStart(p) ==
  /\ proc[p].pc = "idle"
  /\ IF p = 1 THEN TRUE ELSE proc[p - 1].pc \in {"done", "aborted"}

Limits == {1, NumKeys}

NextRuns ==
  \E p \in Procs :
    \/ /\ MayStart(p)
       /\ \E dryRun \in BOOLEAN, reprocess \in BOOLEAN, limit \in Limits :
            StartFlagRun(p, dryRun, reprocess, limit)
    \/ /\ MayStart(p)
       /\ \E dryRun \in BOOLEAN, reprocess \in BOOLEAN, limit \in Limits :
            StartThrRun(p, dryRun, reprocess, limit)
    \/ /\ MayStart(p)
       /\ \E kind \in {"flag", "thr"} : RootReadFail(p, kind)
    \/ FlagLoop(p)
    \/ ThrLoop(p)
    \/ IngestSelect(p)
    \/ IngestWrite(p)
    \/ IngestCommit(p)
    \/ IngestFail(p)
    \/ SidecarUpdate(p)
    \/ SidecarUpdateFail(p)

SpecRuns == InitRuns /\ [][NextRuns]_vars

\* The watcher alone: every task is a handler invocation of one watcher, so
\* that notifications for one leaf can overlap.
NextWatch ==
  \/ \E k \in Keys : WatcherDrop(k)
  \/ \E p \in Procs :
       \/ \E k \in Keys, reprocess \in BOOLEAN : WatcherNotify(p, k, reprocess)
       \/ IngestSelect(p)
       \/ IngestWrite(p)
       \/ IngestCommit(p)
       \/ IngestFail(p)
       \/ SidecarUpdate(p)
       \/ SidecarUpdateFail(p)

SpecWatch == InitSpec /\ [][NextWatch]_vars

\* One batch run of either driver over a time series of readings taken at
\* one place: each reading has a vibration in or out of the detector's bands
\* and a timestamp (on the TsStep raster, 2500 ms before it, or none).
Readings == 1..NumReadings

DetectVibs == {30, 70, 100, 130, NaN}

DetectTimes(k) == {0, TsOf(k) - 2500, TsOf(k)}

DetectLeaf(k, v, ts) ==
  [Leaf(k, Payload(TRUE, FALSE, 1297134, 7759463, v, 20, TRUE)) EXCEPT !.ts = ts]

InitDetect ==
  /\ store \in [Readings ->
        UNION { {DetectLeaf(k, v, ts) : v \in DetectVibs, ts \in DetectTimes(k)} :
                  k \in Readings }]
  /\ \A k \in Readings : store[k].ts \in DetectTimes(k)
  /\ table = <<>>
  /\ uniqueGrid = TRUE
  /\ proc = [p \in Procs |-> IdleProc]
  /\ inFlight = {}
  /\ nStarts = 0
  /\ nFailures = 0
  /\ commits = [t \in EventTypes |-> 0]
  /\ aggBy = [k \in Readings |-> [t \in EventTypes |-> 0]]
  /\ everMigrated = {}
  /\ pool = NoPool
  /\ merged = <<>>
  /\ input = <<>>
  /\ output = <<>>

NextDetect ==
  \/ /\ proc[1].pc = "idle"
     /\ \E dryRun \in BOOLEAN, limit \in Readings :
          StartThrRun(1, dryRun, FALSE, limit)
  \/ /\ proc[1].pc = "idle"
     /\ \E dryRun \in BOOLEAN, limit \in Readings :
          StartFlagRun(1, dryRun, FALSE, limit)
  \/ ThrLoop(1)
  \/ FlagLoop(1)
  \/ IngestSelect(1)
  \/ IngestWrite(1)
  \/ IngestCommit(1)
  \/ SidecarUpdate(1)

SpecDetect == InitDetect /\ [][NextDetect]_vars

\* The limit option on its own: a request gives (or not) a raw limit, the
\* root holds n eligible records, and the run computes its candidates.
LimitValues ==
  {NaN} \cup (-MaxOver..1)
        \cup {THR_LIMIT_MAX + MaxOver, FLAG_LIMIT_MAX + MaxOver}

EligibleCounts ==
  (0..MaxOver)
    \cup {m + d : m \in {THR_LIMIT_MAX, FLAG_LIMIT_MAX}, d \in (-MaxOver..MaxOver)}

InitLimit ==
  /\ input \in [kind : {"flag", "thr"}, raw : {RawOption(FALSE, 0)} \cup
                  {RawOption(TRUE, v) : v \in LimitValues}, n : EligibleCounts]
  /\ output = <<>>
  /\ store = <<>>
  /\ table = <<>>
  /\ uniqueGrid = TRUE
  /\ proc = [p \in Procs |-> IdleProc]
  /\ inFlight = {}
  /\ nStarts = 0
  /\ nFailures = 0
  /\ commits = [t \in EventTypes |-> 0]
  /\ aggBy = <<>>
  /\ everMigrated = {}
  /\ pool = NoPool
  /\ merged = <<>>

\* The candidates of a run over n eligible records, already sorted.
SelectCandidates ==
  LET sorted == [i \in 1..input.n |-> i]
      limit == IF input.kind = "flag" THEN flagLimit(input.raw)
               ELSE thrLimit(input.raw)
      cands == IF input.kind = "flag" THEN JsSlice(sorted, -limit, Len(sorted))
               ELSE JsSlice(sorted, 0, limit)
  IN /\ output = <<>>
     /\ output' = [limit |-> limit, candidates |-> Len(cands),
                   first |-> IF cands = <<>> THEN 0 ELSE Head(cands)]
     /\ UNCHANGED <<pool, merged, input, store, table, uniqueGrid, proc, inFlight, nStarts,
                    nFailures, commits, aggBy, everMigrated>>

NextLimit == SelectCandidates

SpecLimit == InitLimit /\ [][NextLimit]_vars

\* The root as a tree: a function from paths (sequences of keys) to nodes.
\* A node has the names of its properties and, read as a payload, the
\* fields normalizeReading finds in it (NaN for a coordinate it lacks).
ReadingProps ==
  {"potholeFlag", "patchyFlag", "Latitude", "Longitude", "Vibration", "Speed"}

ReadingNode ==
  [props |-> ReadingProps,
   leaf |-> Leaf(1, Payload(TRUE, FALSE, 1297134, 7759463, 100, 20, TRUE))]

ContainerNode(childKeys) ==
  [props |-> childKeys,
   leaf |-> Leaf(1, Payload(FALSE, FALSE, NaN, NaN, NaN, 0, FALSE))]

looksLikeReading(obj) ==
  \/ obj.props \cap {"potholeFlag", "patchyFlag", "pothole", "patchy"} # {}
  \/ obj.props \cap {"Latitude", "Longitude", "latitude", "longitude",
                      "lat", "lon"} # {}

IsPrefix(a, b) == Len(a) <= Len(b) /\ SubSeq(b, 1, Len(a)) = a

Children(root, path) ==
  {q \in DOMAIN root : Len(q) = Len(path) + 1 /\ IsPrefix(path, q)}

\* flattenReadingsTree: walk stops at a node that looks like a reading.
RECURSIVE walk(_, _)
walk(root, pathParts) ==
  IF looksLikeReading(root[pathParts]) THEN {pathParts}
  ELSE UNION {walk(root, q) : q \in Children(root, pathParts)}

flattenReadingsTree(root) == walk(root, <<>>)

\* Object.entries(all): the children of the root, whatever they are.
TopLevelEntries(root) == Children(root, <<>>)

\* The layouts: a flat collection, user -> readings -> reading, and buckets
\* between the user and the reading.
LeafPaths ==
  { <<"r1">>, <<"r2">>, <<"u1", "readings", "r1">>, <<"u1", "readings", "r2">>,
    <<"u2", "readings", "r1">>, <<"u2", "b1", "r1">>,
    <<"u2", "readings", "b1", "r2">> }

PathsOf(leaves) ==
  UNION { {SubSeq(l, 1, i) : i \in 0..Len(l)} : l \in leaves }

TreeOf(leaves) ==
  [q \in PathsOf(leaves) |->
     IF q \in leaves THEN ReadingNode
     ELSE ContainerNode({c[Len(c)] : c \in {x \in PathsOf(leaves) :
                           Len(x) = Len(q) + 1 /\ IsPrefix(q, x)}})]

InitTree ==
  /\ input \in [kind : {"flag", "thr"}, dryRun : BOOLEAN,
                 root : {TreeOf(ls) : ls \in (SUBSET LeafPaths) \ {{}}}]
  /\ output = <<>>
  /\ store = <<>>
  /\ table = <<>>
  /\ uniqueGrid = TRUE
  /\ proc = [p \in Procs |-> IdleProc]
  /\ inFlight = {}
  /\ nStarts = 0
  /\ nFailures = 0
  /\ commits = [t \in EventTypes |-> 0]
  /\ aggBy = <<>>
  /\ everMigrated = {}
  /\ pool = NoPool
  /\ merged = <<>>

\* A run over the tree with no storage failure: its candidates (by path),
\* those it denies for an invalid payload, and the nodes that get a sidecar.
DiscoverAndMark ==
  LET root == input.root
      cands == IF input.kind = "flag" THEN flattenReadingsTree(root)
               ELSE TopLevelEntries(root)
      invalid == IF input.kind = "flag"
                   THEN {q \in cands : FlagDenial(root[q].leaf)
                                          = "invalid_coordinates"}
                   ELSE {q \in cands : validateReadingPayload(root[q].leaf) # ""}
  IN /\ output = <<>>
     /\ output' = [candidates |-> cands, invalid |-> invalid,
                   sidecars |-> IF input.dryRun THEN {} ELSE cands]
     /\ UNCHANGED <<pool, merged, input, store, table, uniqueGrid, proc, inFlight, nStarts,
                    nFailures, commits, aggBy, everMigrated>>

NextTree == DiscoverAndMark

SpecTree == InitTree /\ [][NextTree]_vars

\* ------------------------------------------------------------ the claims
RECURSIVE SumOver(_, _)
SumOver(tbl, col) ==
  IF tbl = <<>> THEN 0
  ELSE (CASE col = "reportCount" -> Head(tbl).reportCount
          [] col = "totalPotholes" -> Head(tbl).totalPotholes
          [] col = "totalPatchy" -> Head(tbl).totalPatchy)
       + SumOver(Tail(tbl), col)

\* C1: under concurrent upserts on one gridId no commit leaves a row's
\* highestSeverity lower (Low < Medium < High) than it was.
C1_SeverityNeverDecreases ==
  [][\A i \in DOMAIN table :
       severityOrder(table'[i].highestSeverity)
         >= severityOrder(table[i].highestSeverity)]_vars

Touching(pr, k) ==
  /\ pr.pc \in {"select", "write", "commit", "update"}
  /\ CurKey(pr) = k

\* C4: with reprocess=false everywhere and no storage failure, each anomaly
\* event of a leaf is added to the aggregate at most once, also when a batch
\* run and the watcher (or two batch runs) handle the leaf concurrently.
C4_AtMostOnce ==
  nFailures = 0 => \A k \in Keys : \A t \in EventTypes : aggBy[k][t] <= 1

\* C5: when the upsert of an event of a reading fails, no aggregate change
\* caused by that reading remains committed at the time the record is
\* marked denied with the error message.
C5_NeverPartiallyAggregated ==
  \A p \in Procs :
    ( /\ proc[p].pc = "update"
      /\ proc[p].upd.mig.status = "denied"
      /\ proc[p].upd.mig.error \in {"storage_error", "ER_DUP_ENTRY"} )
    => proc[p].nDone = 0

\* C7: once a leaf's sidecar has been written migrated, no batch run started
\* later and no watcher notification delivered later, with reprocess=false,
\* takes the leaf up (to upsert its events or to write its sidecar).
Started(p) == ~Running(proc[p]) /\ Running(proc'[p])

C7_MigratedIsFinal ==
  [][\A p \in Procs : \A k \in everMigrated :
       (Started(p) /\ ~proc'[p].reprocess)
         => \A i \in DOMAIN proc'[p].cands : proc'[p].cands[i] # k]_vars

\* The same for the leaves that are migrated in the snapshot the task reads.
C7_MigratedInSnapshotSkipped ==
  \A p \in Procs : \A k \in Keys :
    ( /\ Touching(proc[p], k)
      /\ ~proc[p].reprocess )
    => proc[p].snap[k].mig.status # "migrated"

\* Two runs of the same driver, the second started right after the first.
Consecutive(p) ==
  /\ p + 1 \in Procs
  /\ proc[p].pc = "done"
  /\ proc[p + 1].pc # "idle"
  /\ proc[p + 1].err # "read_failed"
  /\ proc[p].kind = proc[p + 1].kind

LivePair(p) ==
  /\ Consecutive(p)
  /\ ~proc[p].dryRun /\ ~proc[p].reprocess
  /\ ~proc[p + 1].dryRun /\ ~proc[p + 1].reprocess

NothingSelected(pr) ==
  pr.res.candidates = 0 /\ pr.res.items = <<>> /\ pr.pc = "done"

C8_DryRunWritesNothing ==
  [][(\E p \in Procs : Running(proc[p]) /\ proc[p].dryRun)
       => (store' = store /\ table' = table)]_vars

C8_Witness ==
  \E p \in Procs :
    /\ proc[p].dryRun
    /\ proc[p].pc = "done"
    /\ proc[p].res.migrated > 0
    /\ proc[p].res.denied > 0

\* A dry run and then a live run of the same driver with the same options.
DryLivePair(p) ==
  /\ Consecutive(p)
  /\ proc[p + 1].pc = "done"
  /\ proc[p].dryRun /\ ~proc[p + 1].dryRun
  /\ proc[p].reprocess = proc[p + 1].reprocess
  /\ proc[p].limit = proc[p + 1].limit

SameClass(d, l) ==
  /\ d.key = l.key
  /\ d.types = l.types
  /\ d.sevs = l.sevs
  /\ d.reason = l.reason
  /\ IF d.status = "would_migrate" THEN l.status = "migrated"
     ELSE l.status = d.status

SameSummary(dry, live) ==
  /\ Len(dry.items) = Len(live.items)
  /\ \A i \in DOMAIN dry.items :
       i \in DOMAIN live.items /\ SameClass(dry.items[i], live.items[i])
  /\ dry.migrated = live.migrated
  /\ dry.denied = live.denied
  /\ dry.candidates = live.candidates

NoErrorItem(res) == \A i \in DOMAIN res.items : res.items[i].status # "error"

HadAggregatorFailure(pr) ==
  \E i \in DOMAIN pr.res.items :
    /\ pr.res.items[i].status = "error"
    /\ pr.res.items[i].reason = "storage_error"

C10_AggregatorFailureContained ==
  \A p \in Procs :
    HadAggregatorFailure(proc[p]) =>
      /\ proc[p].pc # "aborted"
      /\ (proc[p].pc = "done" /\ (p + 1 \in Procs => proc[p + 1].pc = "idle"))
           => /\ Len(proc[p].res.items) >= Len(proc[p].cands)
              /\ \A i \in DOMAIN proc[p].res.items :
                   proc[p].res.items[i].status = "error"
                     => store[proc[p].res.items[i].key].mig
                          = DeniedSidecar(proc[p].res.items[i].reason)

\* C11: a run is aborted by a failed read of the root only: no failure of a
\* candidate's sidecar write ends the run before its last candidate.
C11_OnlyRootReadAborts ==
  \A p \in Procs :
    (proc[p].kind \in {"flag", "thr"} /\ proc[p].pc = "aborted")
      => proc[p].err = "read_failed"

\* The leaves whose aggregation failed with a storage error in a run.
FailedKeys(pr) ==
  { pr.res.items[i].key :
      i \in { j \in DOMAIN pr.res.items :
                /\ pr.res.items[j].status = "error"
                /\ pr.res.items[j].reason = "storage_error" } }

RetriedBy(pr, k) == \E i \in DOMAIN pr.cands : pr.cands[i] = k

\* C12: a record whose aggregation failed with a storage error in one live
\* run is a candidate of the next run of that driver with reprocess=false
\* (its limit covering every eligible record), so that it is re-attempted.
C12_FailedRecordEligibleAgain ==
  \A p \in Procs :
    ( /\ Consecutive(p)
      /\ ~proc[p].dryRun
      /\ ~proc[p + 1].reprocess
      /\ proc[p + 1].limit >= NumKeys )
    => \A k \in FailedKeys(proc[p]) : RetriedBy(proc[p + 1], k)

Handling(p, k) ==
  proc[p].kind = "watch" /\ Running(proc[p]) /\ CurKey(proc[p]) = k

\* C13: no two handler invocations of the watcher are past the in-flight
\* check for the same leaf at the same time.
C13_OneHandlerPerLeaf ==
  \A p, q \in Procs : \A k \in Keys :
    (Handling(p, k) /\ Handling(q, k)) => p = q

\* A handler is in flight for a leaf and a second notification for that leaf
\* has been turned away (only one task has ever started).
C13_Witness ==
  \E p \in Procs : \E k \in Keys :
    /\ Handling(p, k)
    /\ \A q \in Procs \ {p} : proc[q].pc = "idle"
    /\ nStarts >= 2

\* C14: the in-flight key of a leaf is held only while a handler for that
\* leaf is running: when a handler ends, by failure too, the key is released
\* and a notification for any leaf is taken up again.
C14_InFlightReleased ==
  /\ \A k \in inFlight : \E p \in Procs : Handling(p, k)
  /\ \A k \in Keys :
       ( /\ nStarts < MaxStarts
         /\ \E p \in Procs : ~Running(proc[p])
         /\ \A p \in Procs : ~Handling(p, k) )
       => ENABLED (\E p \in Procs : WatcherNotify(p, k, FALSE))

\* A handler for leaf 1 (the only leaf that reaches the Aggregator) has
\* failed with a storage error and a later notification for leaf 1 is being
\* handled.
C14_Witness ==
  \E p, q \in Procs :
    /\ proc[p].kind = "watch" /\ proc[p].pc = "done"
    /\ proc[p].err = "storage_error"
    /\ Handling(q, 1)
    /\ \A k \in Keys \ {1} : WatchSkip(store[k], TRUE) # ""
    /\ nStarts = 2

\* The timestamp under which a run processes its i-th candidate.
RunTs(pr, i) ==
  IF pr.kind = "thr" THEN processTimestampMs(pr.cands[i], pr.snap[pr.cands[i]])
  ELSE eventTimestampMs(pr.cands[i], pr.snap[pr.cands[i]])

InBatch(pr) == pr.kind \in {"flag", "thr"} /\ Running(pr)

\* C15: within one run the candidates processed so far were processed under
\* non-decreasing timestamps, the candidates without any timestamp included.
C15_TimestampsNonDecreasing ==
  \A p \in Procs :
    InBatch(proc[p]) =>
      \A i \in 2..proc[p].idx : RunTs(proc[p], i - 1) <= RunTs(proc[p], i)

\* The eligible leaves of a run's snapshot and their derived timestamps.
EligibleIn(pr) ==
  IF pr.kind = "thr"
    THEN {k \in DOMAIN pr.snap :
            \E i \in DOMAIN pickPendingFirebaseItems(pr.snap, pr.reprocess) :
               pickPendingFirebaseItems(pr.snap, pr.reprocess)[i] = k}
    ELSE {k \in DOMAIN pr.snap :
            \E i \in DOMAIN flattened(pr.snap, pr.reprocess) :
               flattened(pr.snap, pr.reprocess)[i] = k}

DerivedTs(pr) == IF pr.kind = "thr" THEN ThrSortTs(pr.snap) ELSE FlagSortTs(pr.snap)

Chosen(pr) == {pr.cands[i] : i \in DOMAIN pr.cands}

MostRecentTaken(pr) ==
  /\ Len(pr.cands) = Min(pr.limit, Cardinality(EligibleIn(pr)))
  /\ \A i \in 2..Len(pr.cands) :
       DerivedTs(pr)[pr.cands[i - 1]] <= DerivedTs(pr)[pr.cands[i]]
  /\ \A k \in EligibleIn(pr) \ Chosen(pr) : \A c \in Chosen(pr) :
       DerivedTs(pr)[k] <= DerivedTs(pr)[c]

\* C16: the candidates of a run are the limit eligible records with the
\* greatest derived timestamps, in ascending order: no eligible record that
\* is left out is more recent than one that is taken.
C16_MostRecentTaken ==
  \A p \in Procs : InBatch(proc[p]) => MostRecentTaken(proc[p])

HardMaximum(kind) == IF kind = "flag" THEN FLAG_LIMIT_MAX ELSE THR_LIMIT_MAX

\* C17: whatever the limit option is (absent, zero, negative, not a number,
\* above the maximum), a run has at most the hard maximum of candidates.
C17_CandidatesWithinMaximum ==
  output # <<>> => output.candidates <= HardMaximum(input.kind)

\* The reading nodes of a tree, and its container nodes below the root.
ReadingsOfTree(root) == {q \in DOMAIN root : root[q].props = ReadingProps}

\* C18: at every layout the candidates are the leaf readings, each by its
\* full path, and no container node is classified or given a sidecar.
C18_LeavesAtEveryNesting ==
  output # <<>> =>
    /\ output.candidates = ReadingsOfTree(input.root)
    /\ output.sidecars \subseteq ReadingsOfTree(input.root)

\* A threshold-driven run takes its next candidate.
ThrStep(p) ==
  proc[p].kind = "thr" /\ proc[p].pc = "loop" /\ proc'[p] # proc[p]

\* What the run made of the candidate it has just classified.
Produced(pr) ==
  IF pr.pc = "select"
    THEN [type |-> Head(pr.evs).type, severity |-> Head(pr.evs).severity]
  ELSE LET it == pr.res.items[Len(pr.res.items)]
       IN IF it.status = "would_migrate"
            THEN [type |-> it.types[1], severity |-> it.sevs[1]]
          ELSE [type |-> "none", severity |-> "Low"]

PotholeConditions(det, key, reading, patchyFired) ==
  LET z == IF IsFinite(reading.vib) THEN Abs(reading.vib) ELSE NaN
  IN /\ ~patchyFired
     /\ computeSpeedKmh(reading.speed) >= MIN_SPEED
     /\ IsFinite(z)
     /\ Abs(z - det.prevZ) > PEAK_DELTA
     /\ z >= Z_MIN_THRESHOLD
     /\ processTimestampMs(key, reading) - det.lastDetectionTime > COOLDOWN_MS

\* C19: in the threshold-driven run a valid reading yields a pothole event
\* exactly when no patchy event fired for it and the speed, peak-delta,
\* minimum-z and cooldown conditions hold against the detector state left by
\* the earlier candidates; its severity is High from POTHOLE_HIGH_Z on and
\* Medium below.
C19_PotholeIffConditions ==
  [][\A p \in Procs :
       ThrStep(p) =>
         LET pr == proc[p]
             k == CurKey(pr)
             reading == pr.snap[k]
             got == Produced(proc'[p])
         IN validateReadingPayload(reading) = "" =>
              /\ (got.type = "pothole")
                   <=> PotholeConditions(pr.det, k, reading, got.type = "patchy")
              /\ got.type = "pothole" =>
                   got.severity = (IF Abs(reading.vib) >= POTHOLE_HIGH_Z
                                     THEN "High" ELSE "Medium")]_vars

HasItem(pr, key, type, severity) ==
  \E i \in DOMAIN pr.res.items :
    /\ pr.res.items[i].key = key
    /\ pr.res.items[i].types = <<type>>
    /\ pr.res.items[i].sevs = <<severity>>

\* A run that produced a Medium pothole, then none for a reading within the
\* cooldown, then a High pothole.
C19_Witness ==
  \E p \in Procs :
    /\ proc[p].kind = "thr" /\ proc[p].pc = "done"
    /\ HasItem(proc[p], 1, "pothole", "Medium")
    /\ \E i \in DOMAIN proc[p].res.items :
         /\ proc[p].res.items[i].key = 2
         /\ proc[p].res.items[i].status = "denied"
    /\ HasItem(proc[p], 3, "pothole", "High")

\* The candidates of a run are a time-ordered series that stays in the
\* patchy band at qualifying speed.
StaysInBand(pr) ==
  /\ pr.cands # <<>>
  /\ \A i \in DOMAIN pr.cands :
       /\ store[pr.cands[i]].ts # 0
       /\ validateReadingPayload(store[pr.cands[i]]) = ""
       /\ InPatchyBand(computeSpeedKmh(store[pr.cands[i]].speed),
                       Abs(store[pr.cands[i]].vib))
  /\ \A i \in 2..Len(pr.cands) :
       store[pr.cands[i - 1]].ts <= store[pr.cands[i]].ts

\* The positions in the series that lie PATCHY_DURATION or more after its
\* first reading, and the leaves for which a patchy event fired.
DuePositions(pr) ==
  {i \in DOMAIN pr.cands :
     store[pr.cands[i]].ts - store[pr.cands[1]].ts >= PATCHY_DURATION}

PatchyFiredFor(pr) ==
  {pr.res.items[i].key :
     i \in {j \in DOMAIN pr.res.items : pr.res.items[j].types = <<"patchy">>}}

\* C20: over a series that enters the patchy band and stays in it, one patchy
\* event of severity Low fires, at the first reading that is
\* PATCHY_DURATION or more after the start of the series, and none after it;
\* none fires when the series is shorter than that.
C20_OnePatchyPerSustainedRun ==
  \A p \in Procs :
    (proc[p].kind = "thr" /\ proc[p].pc = "done" /\ StaysInBand(proc[p])) =>
      LET pr == proc[p]
          due == DuePositions(pr)
      IN /\ due = {} => PatchyFiredFor(pr) = {}
         /\ due # {} =>
              /\ PatchyFiredFor(pr)
                   = {pr.cands[CHOOSE i \in due : \A j \in due : i <= j]}
              /\ Cardinality({i \in DOMAIN pr.res.items :
                                pr.res.items[i].types = <<"patchy">>}) = 1
         /\ \A i \in DOMAIN pr.res.items :
              pr.res.items[i].types = <<"patchy">>
                => pr.res.items[i].sevs = <<"Low">>

\* Three readings in the band: the second, PATCHY_DURATION after the first,
\* fired; the third, still in the band, did not.
C20_Witness ==
  \E p \in Procs :
    /\ proc[p].kind = "thr" /\ proc[p].pc = "done"
    /\ StaysInBand(proc[p])
    /\ Len(proc[p].cands) = 3
    /\ PatchyFiredFor(proc[p]) = {proc[p].cands[2]}
    /\ \E i \in DOMAIN proc[p].res.items :
         /\ proc[p].res.items[i].key = proc[p].cands[3]
         /\ proc[p].res.items[i].status = "denied"

\* The events a run holds for the candidate it has just classified.
EventsProduced(pr) ==
  IF pr.pc = "select" THEN Len(pr.evs)
  ELSE IF pr.res.items[Len(pr.res.items)].status = "would_migrate"
    THEN Len(pr.res.items[Len(pr.res.items)].types)
  ELSE 0

NumberField(raw, names) ==
  IF \E i \in DOMAIN names : names[i] \in DOMAIN raw
    THEN raw[names[CHOOSE i \in DOMAIN names :
                      /\ names[i] \in DOMAIN raw
                      /\ \A j \in 1..(i - 1) : names[j] \notin DOMAIN raw]]
  ELSE NaN

\* getFlag and isGpsLocked: Boolean() of the first property present, else
\* the default.
BoolField(raw, names, default) ==
  IF \E i \in DOMAIN names : names[i] \in DOMAIN raw
    THEN raw[names[CHOOSE i \in DOMAIN names :
                      /\ names[i] \in DOMAIN raw
                      /\ \A j \in 1..(i - 1) : names[j] \notin DOMAIN raw]]
  ELSE default

\* The leaf the accessors see in a stored record.  A record here has one
\* vibration property at most, so the two lookup orders (zCorrected first in
\* getVibration, last in normalizeReading) find the same value.
RawLeaf(k, raw) ==
  [potholeFlag |-> BoolField(raw, <<"potholeFlag", "pothole">>, FALSE),
   patchyFlag |-> BoolField(raw, <<"patchyFlag", "patchy">>, FALSE),
   lat |-> NumberField(raw, <<"Latitude", "latitude", "lat">>),
   lon |-> NumberField(raw, <<"Longitude", "longitude", "lon">>),
   vib |-> NumberField(raw, <<"zCorrected", "Vibration", "vibration", "z">>),
   speed |-> IF {"Speed", "speed"} \cap DOMAIN raw = {} THEN 0
             ELSE NumberField(raw, <<"Speed", "speed">>),
   gpsFix |-> BoolField(raw, <<"gpsFix", "GpsFix">>, TRUE),
   ts |-> TsOf(k), mig |-> NoMigration]

\* The stored records of the field-level specification: a latitude under
\* one of two names, a longitude under one of three names or none, one
\* vibration property, and optional flags and GPS fix.
RawFields(name, values) == {name :> v : v \in values}

RawReadings ==
  { la @@ lo @@ vb @@ pf @@ qf @@ fx :
      la \in RawFields("Latitude", {1290000}) \cup RawFields("lat", {0, 1290000}),
      lo \in {<<>>} \cup RawFields("Longitude", {7750000})
                    \cup RawFields("lon", {0, 7750000})
                    \cup RawFields("lng", {0, 7750000}),
      vb \in RawFields("zCorrected", {100, -80}) \cup RawFields("vibration", {100, 50}),
      pf \in {<<>>} \cup RawFields("potholeFlag", BOOLEAN),
      qf \in {<<>>} \cup RawFields("patchyFlag", {TRUE}),
      fx \in {<<>>} \cup RawFields("gpsFix", {FALSE}) }

InitFields ==
  /\ input \in [{1} -> RawReadings]
  /\ output = <<>>
  /\ store = [k \in {1} |-> RawLeaf(k, input[k])]
  /\ table = <<>>
  /\ uniqueGrid = TRUE
  /\ proc = [p \in Procs |-> IdleProc]
  /\ inFlight = {}
  /\ nStarts = 0
  /\ nFailures = 0
  /\ commits = [t \in EventTypes |-> 0]
  /\ aggBy = [k \in {1} |-> [t \in EventTypes |-> 0]]
  /\ everMigrated = {}
  /\ pool = NoPool
  /\ merged = <<>>

\* One run, flag-driven or threshold-driven, dry or live, over the record.
NextFields ==
  \/ /\ proc[1].pc = "idle"
     /\ \E dryRun \in BOOLEAN : StartFlagRun(1, dryRun, FALSE, 1)
  \/ /\ proc[1].pc = "idle"
     /\ \E dryRun \in BOOLEAN : StartThrRun(1, dryRun, FALSE, 1)
  \/ FlagLoop(1)
  \/ ThrLoop(1)
  \/ IngestSelect(1)
  \/ IngestWrite(1)
  \/ IngestCommit(1)
  \/ SidecarUpdate(1)

SpecFields == InitFields /\ [][NextFields]_vars

\* The summary item of a finished run for leaf k.
ItemFor(pr, k) ==
  CHOOSE it \in {pr.res.items[i] : i \in DOMAIN pr.res.items} : it.key = k

FinishedRun(pr, kind) ==
  /\ pr.kind = kind
  /\ pr.pc = "done"
  /\ pr.res.items # <<>>

\* One event per true flag, the pothole's severity from |vibration|.
ExpectedTypes(leaf) ==
  (IF leaf.potholeFlag THEN <<"pothole">> ELSE <<>>)
    \o (IF leaf.patchyFlag THEN <<"patchy">> ELSE <<>>)

ExpectedSevs(leaf) ==
  (IF leaf.potholeFlag
     THEN <<IF Abs(leaf.vib) >= 90 THEN "High"
            ELSE IF Abs(leaf.vib) >= 70 THEN "Medium" ELSE "Low">>
     ELSE <<>>)
    \o (IF leaf.patchyFlag THEN <<"Low">> ELSE <<>>)

OneEventPerTrueFlag ==
  \A p \in Procs :
    FinishedRun(proc[p], "flag") =>
      LET leaf == RawLeaf(1, input[1])
          it == ItemFor(proc[p], 1)
      IN (/\ leaf.gpsFix
          /\ IsFinite(leaf.lat) /\ leaf.lat # 0
          /\ IsFinite(leaf.lon) /\ leaf.lon # 0
          /\ leaf.potholeFlag \/ leaf.patchyFlag)
         => /\ it.status = IF proc[p].dryRun THEN "would_migrate" ELSE "migrated"
            /\ it.types = ExpectedTypes(leaf)
            /\ it.sevs = ExpectedSevs(leaf)
            /\ ~proc[p].dryRun =>
                 /\ commits["pothole"] = (IF leaf.potholeFlag THEN 1 ELSE 0)
                 /\ commits["patchy"] = (IF leaf.patchyFlag THEN 1 ELSE 0)

ScenarioFlagged ==
  ("lat" :> 1290000) @@ ("lng" :> 7750000) @@ ("zCorrected" :> 100)
    @@ ("potholeFlag" :> TRUE)

ScenarioMigratedHigh ==
  \A p \in Procs :
    (FinishedRun(proc[p], "flag") /\ ~proc[p].dryRun /\ input[1] = ScenarioFlagged)
      => /\ ItemFor(proc[p], 1).status = "migrated"
         /\ ItemFor(proc[p], 1).types = <<"pothole">>
         /\ ItemFor(proc[p], 1).sevs = <<"High">>
         /\ commits["pothole"] = 1 /\ commits["patchy"] = 0

\* C22: in the flag-driven path a GPS-locked reading with finite non-zero
\* coordinates and a true flag yields one event per true flag with the
\* stated severities, and {lat:12.9, lng:77.5, potholeFlag:true,
\* zCorrected:10} is migrated as one pothole event of severity High.
C22_OneEventPerTrueFlag ==
  OneEventPerTrueFlag /\ ScenarioMigratedHigh

ScenarioUnlocked ==
  ("lat" :> 0) @@ ("lng" :> 0) @@ ("vibration" :> 100)

\* C23: {lat:0, lng:0, vibration:10} run through the Orchestrator is denied
\* with reason gps_not_locked_or_zero_coords, in the summary item and in the
\* sidecar.
C23_UnlockedDeniedAsGps ==
  \A p \in Procs :
    (/\ FinishedRun(proc[p], "flag") \/ FinishedRun(proc[p], "thr")
     /\ input[1] = ScenarioUnlocked)
      => /\ ItemFor(proc[p], 1).status = "denied"
         /\ ItemFor(proc[p], 1).reason = "gps_not_locked_or_zero_coords"
         /\ ~proc[p].dryRun =>
              store[1].mig = DeniedSidecar("gps_not_locked_or_zero_coords")

\* ----------------------- ingestAggregatedEvent, one call at a time, await
\* by await: getConnection, beginTransaction, the SELECT and the INSERT or
\* UPDATE of upsertAggregatedLocationEvent, commit, rollback, release.
SeqEvents ==
  { Event("pothole", 1297134, 7759463, "High", 11000),
    Event("pothole", 1297133, 7759464, "Medium", 12000),
    Event("patchy", 1297134, 7759463, "Low", 13000),
    Event("pothole", 1297129, 7759468, "Low", 14000),
    Event("patchy", 1297129, 7759468, "", 0),
    Event("pothole", NaN, 7759463, "High", 11000) }

\* finally { connection.release() }
finallyRelease_OnlyAfterCommit(pl, committed) ==
  IF committed THEN [pl EXCEPT !.released = @ + 1] ELSE pl

finallyRelease(pl, committed) == [pl EXCEPT !.released = @ + 1]

\* The call is made and waits for db.promise().getConnection().
SeqCall(ev) ==
  /\ ~Running(proc[1])
  /\ nStarts < MaxIngests
  /\ nStarts' = nStarts + 1
  /\ proc' = [proc EXCEPT ![1] =
       [IdleProc EXCEPT !.kind = "raw", !.pc = "getConnection", !.evs = <<ev>>]]
  /\ UNCHANGED <<store, table, uniqueGrid, inFlight, nFailures, commits, aggBy,
                 everMigrated, pool, merged, input, output>>

\* getConnection resolves: the connection is handed out and the call waits
\* for beginTransaction.
SeqGetConnection ==
  /\ proc[1].pc = "getConnection"
  /\ pool' = [pool EXCEPT !.acquired = @ + 1]
  /\ proc' = [proc EXCEPT ![1].pc = "beginTransaction"]
  /\ UNCHANGED <<store, table, uniqueGrid, inFlight, nStarts, nFailures, commits,
                 aggBy, everMigrated, merged, input, output>>

\* beginTransaction resolves: upsertAggregatedLocationEvent runs up to its
\* SELECT, or throws on a coordinate that is not finite.
SeqBeginTransaction ==
  LET ev == CurEvent(proc[1])
  IN /\ proc[1].pc = "beginTransaction"
     /\ proc' = [proc EXCEPT ![1] =
          IF ~IsFinite(ev.latitude) \/ ~IsFinite(ev.longitude)
            THEN [@ EXCEPT !.pc = "rollback",
                           !.err = "Invalid latitude/longitude for aggregated event"]
            ELSE [@ EXCEPT !.pc = "select"]]
     /\ UNCHANGED <<store, table, uniqueGrid, inFlight, nStarts, nFailures, commits,
                    aggBy, everMigrated, pool, merged, input, output>>

\* The SELECT resolves with the rows of the grid.
SeqSelect ==
  LET ev == CurEvent(proc[1])
      rows == RowsOf(table, EventGrid(ev))
  IN /\ proc[1].pc = "select"
     /\ IF rows = {}
          THEN proc' = [proc EXCEPT ![1] = [@ EXCEPT !.pc = "write", !.sel = "none"]]
          ELSE \E i \in rows :
                 /\ \A j \in rows : i <= j
                 /\ proc' = [proc EXCEPT ![1] =
                      [@ EXCEPT !.pc = "write", !.sel = table[i].highestSeverity]]
     /\ UNCHANGED <<store, table, uniqueGrid, inFlight, nStarts, nFailures, commits,
                    aggBy, everMigrated, pool, merged, input, output>>

\* The INSERT or UPDATE resolves; its effect is in the transaction.
SeqWrite ==
  /\ proc[1].pc = "write"
  /\ proc' = [proc EXCEPT ![1].pc = "commit"]
  /\ UNCHANGED <<store, table, uniqueGrid, inFlight, nStarts, nFailures, commits,
                 aggBy, everMigrated, pool, merged, input, output>>

\* commit resolves: the write is in the table, finally releases the
\* connection, the call returns.
SeqCommit ==
  LET ev == CurEvent(proc[1])
  IN /\ proc[1].pc = "commit"
     /\ table' = upsertWrite(table, ev, proc[1].sel)
     /\ commits' = [commits EXCEPT ![ev.type] = @ + 1]
     /\ merged' = Append(merged, ev)
     /\ pool' = finallyRelease(pool, TRUE)
     /\ proc' = [proc EXCEPT ![1] = Finish(@, "")]
     /\ UNCHANGED <<store, uniqueGrid, inFlight, nStarts, nFailures, aggBy,
                    everMigrated, input, output>>

\* An await inside the try rejects: the catch block waits for rollback.
SeqReject ==
  /\ proc[1].pc \in {"beginTransaction", "select", "write", "commit"}
  /\ nFailures < MaxFailures
  /\ nFailures' = nFailures + 1
  /\ proc' = [proc EXCEPT ![1] = [@ EXCEPT !.pc = "rollback", !.err = "storage_error"]]
  /\ UNCHANGED <<store, table, uniqueGrid, inFlight, nStarts, commits, aggBy,
                 everMigrated, pool, merged, input, output>>

\* getConnection rejects: the call throws before the try, holding nothing.
SeqGetConnectionReject ==
  /\ proc[1].pc = "getConnection"
  /\ nFailures < MaxFailures
  /\ nFailures' = nFailures + 1
  /\ proc' = [proc EXCEPT ![1] = Finish(@, "no_connection")]
  /\ UNCHANGED <<store, table, uniqueGrid, inFlight, nStarts, commits, aggBy,
                 everMigrated, pool, merged, input, output>>

\* rollback resolves (the error is rethrown) or rejects (its own error is
\* thrown): finally releases the connection either way.
SeqRollback(rejects) ==
  /\ proc[1].pc = "rollback"
  /\ rejects => nFailures < MaxFailures
  /\ nFailures' = IF rejects THEN nFailures + 1 ELSE nFailures
  /\ pool' = finallyRelease(pool, FALSE)
  /\ proc' = [proc EXCEPT ![1] =
       Finish(@, IF rejects THEN "rollback_failed" ELSE @.err)]
  /\ UNCHANGED <<store, table, uniqueGrid, inFlight, nStarts, commits, aggBy,
                 everMigrated, merged, input, output>>

InitSeq ==
  /\ store = <<>>
  /\ table = <<>>
  /\ uniqueGrid = TRUE
  /\ proc = [p \in Procs |-> IdleProc]
  /\ inFlight = {}
  /\ nStarts = 0
  /\ nFailures = 0
  /\ commits = [t \in EventTypes |-> 0]
  /\ aggBy = <<>>
  /\ everMigrated = {}
  /\ pool = NoPool
  /\ merged = <<>>
  /\ input = <<>>
  /\ output = <<>>

NextSeq ==
  \/ \E ev \in SeqEvents : SeqCall(ev)
  \/ SeqGetConnection
  \/ SeqGetConnectionReject
  \/ SeqBeginTransaction
  \/ SeqSelect
  \/ SeqWrite
  \/ SeqCommit
  \/ SeqReject
  \/ \E rejects \in BOOLEAN : SeqRollback(rejects)

SpecSeq == InitSeq /\ [][NextSeq]_vars

\* The events merged so far at the coordinates (lat, lon).
MergedAt(lat, lon) ==
  {i \in DOMAIN merged : merged[i].latitude = lat /\ merged[i].longitude = lon}

\* C24: events at (12.97134, 77.59463) and (12.97129, 77.59468) get the
\* gridId 12.9713_77.5946, and upserting both from an empty table leaves one
\* row with reportCount = 2.
C24_SameGridOneRow ==
  (/\ Len(merged) = 2
   /\ MergedAt(1297134, 7759463) # {}
   /\ MergedAt(1297129, 7759468) # {})
    => /\ Len(table) = 1
       /\ table[1].gridId = <<129713, 775946>>
       /\ table[1].reportCount = 2

MaxSeverity(sevs) ==
  IF "High" \in sevs THEN "High"
  ELSE IF "Medium" \in sevs THEN "Medium" ELSE "Low"

MergedSeverities(g) ==
  {severityOf(merged[i]) : i \in {j \in DOMAIN merged : EventGrid(merged[j]) = g}}

\* C25: after any sequence of sequential upserts a row's highestSeverity is
\* the greatest severity merged into its gridId, so Low, High and Medium
\* give High in every order.
C25_SeverityIsMaxOfMerged ==
  \A i \in DOMAIN table :
    /\ table[i].highestSeverity = MaxSeverity(MergedSeverities(table[i].gridId))
    /\ MergedSeverities(table[i].gridId) = {"Low", "Medium", "High"}
         => table[i].highestSeverity = "High"

\* Low, then High, then Medium went into one gridId: the row is High.
C25_Witness ==
  /\ Len(merged) = 3
  /\ <<merged[1].severity, merged[2].severity, merged[3].severity>>
       = <<"Low", "High", "Medium">>
  /\ Len(table) = 1
  /\ table[1].highestSeverity = "High"

\* C26: a connection is released exactly once on every exit path: while a
\* call holds one, one more was handed out than given back, and once the
\* call has ended as many were given back as handed out.
C26_ReleasedExactlyOnce ==
  IF proc[1].pc \in {"beginTransaction", "select", "write", "commit", "rollback"}
    THEN pool.acquired = pool.released + 1
    ELSE pool.acquired = pool.released

\* A call whose query failed and whose rollback failed too has ended.
C26_Witness ==
  /\ proc[1].pc = "done"
  /\ proc[1].err = "rollback_failed"
  /\ pool.acquired = 1
  /\ pool.released = 1

\* C30: one sequential upsert changes one row.  An existing row gets its
\* matching counter and reportCount incremented, the other counter kept,
\* highestSeverity the greater of its own and the incoming one, and
\* lastReportedAt the event's timestamp (the current time without one);
\* otherwise a row is inserted with counters 1/0, reportCount 1, the
\* incoming severity and both dates the event's timestamp.
C30_UpsertChangesOneRow ==
  [][SeqCommit =>
       LET ev == CurEvent(proc[1])
           g == <<toFixed4(ev.latitude), toFixed4(ev.longitude)>>
           sev == IF ev.severity = "" THEN "Low" ELSE ev.severity
           at == IF ev.timestampMs > 0 THEN ev.timestampMs \div 1000 ELSE NowSql
           old == {i \in DOMAIN table : table[i].gridId = g}
           potholeInc == IF ev.type = "pothole" THEN 1 ELSE 0
       IN IF old # {}
            THEN /\ Cardinality(old) = 1
                 /\ DOMAIN table' = DOMAIN table
                 /\ \A i \in DOMAIN table \ old : table'[i] = table[i]
                 /\ \A i \in old :
                      table'[i] =
                        [table[i] EXCEPT
                           !.totalPotholes = @ + potholeInc,
                           !.totalPatchy = @ + (1 - potholeInc),
                           !.reportCount = @ + 1,
                           !.highestSeverity =
                              MaxSeverity({table[i].highestSeverity, sev}),
                           !.lastReportedAt = at]
            ELSE /\ Len(table') = Len(table) + 1
                 /\ \A i \in DOMAIN table : table'[i] = table[i]
                 /\ LET row == table'[Len(table')]
                    IN /\ row.gridId = g
                       /\ row.totalPotholes = potholeInc
                       /\ row.totalPatchy = 1 - potholeInc
                       /\ row.reportCount = 1
                       /\ row.highestSeverity = sev
                       /\ row.firstReportedAt = at
                       /\ row.lastReportedAt = at]_vars

\* A row that was inserted by a pothole has been updated by a patchy event
\* without a timestamp.
C30_Witness ==
  /\ Len(merged) = 2
  /\ merged[1].type = "pothole"
  /\ merged[2].type = "patchy" /\ merged[2].timestampMs = 0
  /\ Len(table) = 1
  /\ table[1].reportCount = 2
  /\ table[1].lastReportedAt = NowSql
  /\ table[1].firstReportedAt = 14

\* ------------------------------------------------ the process-start hook
\* An environment variable: unset, or set to a string.
EnvVar(defined, value) == [defined |-> defined, value |-> value]

EnvValues ==
  { EnvVar(FALSE, ""), EnvVar(TRUE, "true"), EnvVar(TRUE, "false"),
    EnvVar(TRUE, "FALSE"), EnvVar(TRUE, "0"), EnvVar(TRUE, "") }

toLowerCase(str) ==
  CASE str = "FALSE" -> "false" [] str = "TRUE" -> "true" [] OTHER -> str

\* raw === undefined ? true : String(raw).toLowerCase() !== "false"
enabledBy(raw) ==
  IF ~raw.defined THEN TRUE ELSE toLowerCase(raw.value) # "false"

\* String(raw || "false").toLowerCase() === "true"
reprocessBy(raw) ==
  toLowerCase(IF ~raw.defined \/ raw.value = "" THEN "false" ELSE raw.value) = "true"

STARTUP_LIMIT_DEFAULT == 500

NothingStarted ==
  [syncRun |-> FALSE, limit |-> 0, reprocess |-> FALSE, watcher |-> FALSE,
   watchReprocess |-> FALSE]

\* if (!startupEnabled) { ...; return; }
returnsWhenSyncDisabled(startupEnabled) == ~startupEnabled

\* The app.listen callback: what it has scheduled and started on return.
serverStart(env) ==
  LET startupEnabled == enabledBy(env.STARTUP_FLAGS_SYNC)
      watchEnabled == enabledBy(env.REALTIME_FLAGS_WATCH)
      sync == IF startupEnabled
                THEN [NothingStarted EXCEPT
                        !.syncRun = TRUE, !.limit = STARTUP_LIMIT_DEFAULT,
                        !.reprocess = reprocessBy(env.STARTUP_FLAGS_SYNC_REPROCESS)]
                ELSE NothingStarted
  IN IF returnsWhenSyncDisabled(startupEnabled) THEN NothingStarted
     ELSE IF watchEnabled
       THEN [sync EXCEPT !.watcher = TRUE,
               !.watchReprocess = reprocessBy(env.REALTIME_FLAGS_WATCH_REPROCESS)]
     ELSE sync

InitStart ==
  /\ input \in [STARTUP_FLAGS_SYNC : EnvValues,
                STARTUP_FLAGS_SYNC_REPROCESS : EnvValues \ {EnvVar(TRUE, "0")},
                REALTIME_FLAGS_WATCH : EnvValues,
                REALTIME_FLAGS_WATCH_REPROCESS :
                  {EnvVar(FALSE, ""), EnvVar(TRUE, "true")}]
  /\ output = <<>>
  /\ store = <<>>
  /\ table = <<>>
  /\ uniqueGrid = TRUE
  /\ proc = [p \in Procs |-> IdleProc]
  /\ inFlight = {}
  /\ nStarts = 0
  /\ nFailures = 0
  /\ commits = [t \in EventTypes |-> 0]
  /\ aggBy = <<>>
  /\ everMigrated = {}
  /\ pool = NoPool
  /\ merged = <<>>

ServerListening ==
  /\ output = <<>>
  /\ output' = serverStart(input)
  /\ UNCHANGED <<pool, merged, input, store, table, uniqueGrid, proc, inFlight,
                 nStarts, nFailures, commits, aggBy, everMigrated>>

NextStart == ServerListening

SpecStart == InitStart /\ [][NextStart]_vars

\* The toggle is the string false, in either case.
ToggleOff(raw) == raw.defined /\ raw.value \in {"false", "FALSE"}

\* C28: at process start the startup run is triggered exactly when the sync
\* toggle is not false (reprocess false unless set), and the Watcher is
\* started exactly when the watcher toggle is not false, whatever the sync
\* toggle.
C28_DriversGatedIndependently ==
  output # <<>> =>
    /\ output.syncRun <=> ~ToggleOff(input.STARTUP_FLAGS_SYNC)
    /\ (output.syncRun /\ ~input.STARTUP_FLAGS_SYNC_REPROCESS.defined)
         => ~output.reprocess
    /\ output.watcher <=> ~ToggleOff(input.REALTIME_FLAGS_WATCH)

\* ------------------------------------- runs, with the device in between
\* The device rewrites a flag of a record that a run has denied; the
\* record's other properties and its _migration sidecar stay.
FlagsChange(k, name) ==
  /\ \A p \in Procs : ~Running(proc[p])
  /\ store[k].mig.status = "denied"
  /\ store' = [store EXCEPT ![k] =
       IF name = "potholeFlag" THEN [@ EXCEPT !.potholeFlag = ~@]
       ELSE [@ EXCEPT !.patchyFlag = ~@]]
  /\ UNCHANGED <<table, uniqueGrid, proc, inFlight, nStarts, nFailures, commits,
                 aggBy, everMigrated, pool, merged, input, output>>

\* Two runs with reprocess=false, one after the other.
NextDenied ==
  \/ \E k \in Keys, name \in {"potholeFlag", "patchyFlag"} : FlagsChange(k, name)
  \/ \E p \in Procs :
       \/ /\ MayStart(p)
          /\ \E dryRun \in BOOLEAN : StartFlagRun(p, dryRun, FALSE, NumKeys)
       \/ /\ MayStart(p)
          /\ \E dryRun \in BOOLEAN : StartThrRun(p, dryRun, FALSE, NumKeys)
       \/ FlagLoop(p)
       \/ ThrLoop(p)
       \/ IngestSelect(p)
       \/ IngestWrite(p)
       \/ IngestCommit(p)
       \/ SidecarUpdate(p)

SpecDenied == InitRuns /\ [][NextDenied]_vars

InSeq(x, seq) == \E i \in DOMAIN seq : seq[i] = x

\* C27: with reprocess=false the threshold-driven run never takes a record
\* whose sidecar says denied, whatever the reason; in the flag-driven path a
\* denied record whose flags change is eligible again.
C27_DeniedTerminalOrEligible ==
  /\ \A p \in Procs :
       (proc[p].kind = "thr" /\ proc[p].pc = "loop")
         => \A i \in DOMAIN proc[p].cands :
              proc[p].snap[proc[p].cands[i]].mig.status # "denied"
  /\ \A k \in Keys :
       (/\ store[k].mig.status = "denied"
        /\ store[k].mig.error = "Flags false (potholeFlag & patchyFlag)"
        /\ store[k].potholeFlag \/ store[k].patchyFlag)
         => InSeq(k, FlagCandidates(store, FALSE, NumKeys))

\* A record the first run denied for its flags had a flag set by the device
\* and was migrated by the second, flag-driven run.
C27_Witness ==
  /\ proc[1].pc = "done" /\ proc[2].pc = "done"
  /\ proc[2].kind = "flag" /\ ~proc[2].dryRun
  /\ \E i \in DOMAIN proc[1].res.items :
       /\ proc[1].res.items[i].key = 1
       /\ proc[1].res.items[i].reason = "Flags false (potholeFlag & patchyFlag)"
  /\ \E i \in DOMAIN proc[2].res.items :
       /\ proc[2].res.items[i].key = 1
       /\ proc[2].res.items[i].status = "migrated"

\* A threshold-driven second run found both records denied and took none.
C27_WitnessTerminal ==
  /\ proc[1].pc = "done" /\ proc[2].pc = "done"
  /\ proc[2].kind = "thr"
  /\ proc[2].res.candidates = 0
  /\ \A k \in Keys : store[k].mig.status = "denied"

\* C29: a sidecar write changes only _migration: every other field of every
\* record is as before, and no record is deleted.
C29_OnlyMigrationChanges ==
  [][/\ DOMAIN store' = DOMAIN store
     /\ \A k \in DOMAIN store :
          [store'[k] EXCEPT !.mig = NoMigration]
            = [store[k] EXCEPT !.mig = NoMigration]]_vars

\* One record carries a migrated sidecar and the other a denied one, and
\* both still have their payload.
C29_Witness ==
  /\ store[1].mig.status = "migrated"
  /\ store[1].potholeFlag /\ store[1].lat = 1297134 /\ store[1].ts = TsOf(1)
  /\ store[2].mig.status = "denied"
  /\ IsFinite(store[2].lon) /\ store[2].ts = TsOf(2)

\* C31: a merge into an existing row keeps the row's latitude, longitude,
\* firstReportedAt and status, every row of another gridId is left as it
\* was, and no row ever has a status other than the implicit pending.
C31_MergeKeepsFirstSeen ==
  [][/\ \A i \in DOMAIN table :
          /\ i \in DOMAIN table'
          /\ table'[i].latitude = table[i].latitude
          /\ table'[i].longitude = table[i].longitude
          /\ table'[i].firstReportedAt = table[i].firstReportedAt
          /\ table'[i].status = table[i].status
          /\ (SeqCommit /\ table[i].gridId
                # <<toFixed4(CurEvent(proc[1]).latitude),
                    toFixed4(CurEvent(proc[1]).longitude)>>)
               => table'[i] = table[i]
     /\ \A i \in DOMAIN table' : table'[i].status = "pending"]_vars

\* Two events of one cell with different exact coordinates were merged, next
\* to a row of another cell: the row has the first event's coordinates.
C31_Witness ==
  /\ Len(merged) = 3
  /\ Len(table) = 2
  /\ merged[1].latitude # merged[2].latitude
  /\ EventGrid(merged[1]) = EventGrid(merged[2])
  /\ table[1].latitude = merged[1].latitude
  /\ table[1].longitude = merged[1].longitude
  /\ table[1].reportCount = 2
  /\ table[2].reportCount = 1

\* Any two pothole items of a run are for readings processed under
\* timestamps more than COOLDOWN_MS apart.
PotholesApart(pr) ==
  \A a, b \in DOMAIN pr.res.items :
    (/\ a < b
     /\ pr.res.items[a].types = <<"pothole">>
     /\ pr.res.items[b].types = <<"pothole">>)
      => processTimestampMs(pr.res.items[b].key, store[pr.res.items[b].key])
           - processTimestampMs(pr.res.items[a].key, store[pr.res.items[a].key])
         > COOLDOWN_MS

\* C32: within one threshold-driven run any two pothole events are more than
\* cooldownMs apart; a firing sets the cooldown clock to its timestamp and a
\* reading that fires no pothole leaves the clock as it was.
C32_PotholeCooldown ==
  [][\A p \in Procs :
       /\ proc'[p].kind = "thr" => PotholesApart(proc'[p])
       /\ ThrStep(p) =>
            LET reading == proc[p].snap[CurKey(proc[p])]
            IN IF Produced(proc'[p]).type = "pothole"
                 THEN proc'[p].det.lastDetectionTime
                        = processTimestampMs(CurKey(proc[p]), reading)
                 ELSE proc'[p].det.lastDetectionTime
                        = proc[p].det.lastDetectionTime]_vars

\* Potholes fired for the first and the third reading, 6000 ms apart, and
\* the clock shows the third reading's timestamp.
C32_Witness ==
  \E p \in Procs :
    /\ proc[p].kind = "thr" /\ proc[p].pc = "done"
    /\ \E i \in DOMAIN proc[p].res.items :
         proc[p].res.items[i].key = 1 /\ proc[p].res.items[i].types = <<"pothole">>
    /\ \E i \in DOMAIN proc[p].res.items :
         proc[p].res.items[i].key = 3 /\ proc[p].res.items[i].types = <<"pothole">>
    /\ store[1].ts = TsOf(1) /\ store[3].ts = TsOf(3)
    /\ proc[p].det.lastDetectionTime = TsOf(3)

\* --------------------------- a longer series through the patchy detector
\* PatchyLen readings, each in the band (3.0) or below it (1.0), a short or
\* a long gap after the one before.
PatchyLen == 5

Series == 1..PatchyLen

SeriesVibs == {30, 10}

SeriesGaps == {500, TsStep}

RECURSIVE SeriesTs(_, _)
SeriesTs(gaps, k) == IF k = 1 THEN TsBase ELSE SeriesTs(gaps, k - 1) + gaps[k]

InitPatchy ==
  /\ \E vibs \in [Series -> SeriesVibs], gaps \in [Series -> SeriesGaps] :
       /\ gaps[1] = TsStep
       /\ store = [k \in Series |-> DetectLeaf(k, vibs[k], SeriesTs(gaps, k))]
  /\ table = <<>>
  /\ uniqueGrid = TRUE
  /\ proc = [p \in Procs |-> IdleProc]
  /\ inFlight = {}
  /\ nStarts = 0
  /\ nFailures = 0
  /\ commits = [t \in EventTypes |-> 0]
  /\ aggBy = [k \in Series |-> [t \in EventTypes |-> 0]]
  /\ everMigrated = {}
  /\ pool = NoPool
  /\ merged = <<>>
  /\ input = <<>>
  /\ output = <<>>

NextPatchy ==
  \/ /\ proc[1].pc = "idle"
     /\ \E dryRun \in BOOLEAN : StartThrRun(1, dryRun, FALSE, PatchyLen)
  \/ ThrLoop(1)
  \/ IngestSelect(1)
  \/ IngestWrite(1)
  \/ IngestCommit(1)
  \/ SidecarUpdate(1)

SpecPatchy == InitPatchy /\ [][NextPatchy]_vars

InBandLeaf(k) ==
  InPatchyBand(computeSpeedKmh(store[k].speed), Abs(store[k].vib))

\* The types of the item a finished or running run holds for leaf k.
FiredFor(pr, k, type) ==
  \E i \in DOMAIN pr.res.items :
    pr.res.items[i].key = k /\ pr.res.items[i].types = <<type>>

\* C33: an out-of-band reading no more than patchyResetMs after the last
\* in-band reading leaves the sustained-start and the latch as they were;
\* one that comes later clears both, and the next two in-band readings that
\* are patchyDurationMs or more apart fire a patchy event again.
C33_PatchyDebounce ==
  [][\A p \in Procs :
       /\ ThrStep(p) /\ ~InBandLeaf(CurKey(proc[p])) =>
            IF store[CurKey(proc[p])].ts - proc[p].det.lastPatchyVibrationTime
                 <= PATCHY_RESET_MS
              THEN /\ proc'[p].det.patchyStart = proc[p].det.patchyStart
                   /\ proc'[p].det.patchyAlert = proc[p].det.patchyAlert
              ELSE /\ proc'[p].det.patchyStart = 0
                   /\ ~proc'[p].det.patchyAlert
       /\ (proc'[p].kind = "thr" /\ proc'[p].pc = "done") =>
            \A j \in 2..(PatchyLen - 2) :
              (/\ ~InBandLeaf(j)
               /\ store[j].ts - store[j - 1].ts > PATCHY_RESET_MS
               /\ InBandLeaf(j + 1) /\ InBandLeaf(j + 2)
               /\ store[j + 2].ts - store[j + 1].ts >= PATCHY_DURATION)
                => FiredFor(proc'[p], j + 2, "patchy")]_vars

\* A patchy event fired at the second reading, the third was out of the
\* band long after it, and the fourth and fifth fired a second one.
C33_Witness ==
  /\ proc[1].kind = "thr" /\ proc[1].pc = "done"
  /\ FiredFor(proc[1], 2, "patchy")
  /\ ~InBandLeaf(3)
  /\ FiredFor(proc[1], 5, "patchy")

\* C40: an in-band reading never resets the sustained-start, whatever the
\* time since the reading before it; so when the candidate before it was in
\* the band as well and more than patchyDurationMs earlier, and the run has
\* not fired yet, the reading fires a patchy event.
C40_InBandNeverResets ==
  [][\A p \in Procs :
       (ThrStep(p) /\ validateReadingPayload(proc[p].snap[CurKey(proc[p])]) = ""
          /\ InPatchyBand(computeSpeedKmh(proc[p].snap[CurKey(proc[p])].speed),
                          Abs(proc[p].snap[CurKey(proc[p])].vib)))
         => LET pr == proc[p]
                ts == RunTs(pr, pr.idx)
            IN /\ pr.det.patchyStart # 0
                    => proc'[p].det.patchyStart = pr.det.patchyStart
               /\ pr.det.patchyStart = 0 => proc'[p].det.patchyStart = ts
               /\ (/\ pr.idx > 1
                   /\ InPatchyBand(
                        computeSpeedKmh(pr.snap[pr.cands[pr.idx - 1]].speed),
                        Abs(pr.snap[pr.cands[pr.idx - 1]].vib))
                   /\ ts - RunTs(pr, pr.idx - 1) > PATCHY_DURATION
                   /\ ~pr.det.patchyAlert)
                    => Produced(proc'[p]).type = "patchy"]_vars

\* The first two readings were in the band, 5500 ms apart, and the second
\* fired a patchy event.
C40_Witness ==
  \E p \in Procs :
    /\ proc[p].kind = "thr" /\ proc[p].pc = "done"
    /\ store[1].vib = 30 /\ store[2].vib = 30
    /\ store[1].ts = TsOf(1) - 2500 /\ store[2].ts = TsOf(2)
    /\ HasItem(proc[p], 2, "patchy", "Low")

\* ------------------------------------- flattenReadingsTree on its own
\* Roots whose readings may hold objects of their own: the _migration
\* sidecar, and a gps object with lat and lon.
SidecarNode ==
  [props |-> {"status", "processed", "at"},
   leaf |-> Leaf(1, Payload(FALSE, FALSE, NaN, NaN, NaN, 0, FALSE))]

GpsNode ==
  [props |-> {"lat", "lon"},
   leaf |-> Leaf(1, Payload(FALSE, FALSE, 1297134, 7759463, NaN, 0, TRUE))]

NestedTreeOf(leaves, nested) ==
  [q \in PathsOf(leaves)
           \cup {Append(l, "_migration") : l \in nested}
           \cup {Append(l, "gps") : l \in nested} |->
     IF q \in nested
       THEN [ReadingNode EXCEPT !.props = @ \cup {"_migration", "gps"}]
     ELSE IF q \in leaves THEN ReadingNode
     ELSE IF q \in PathsOf(leaves)
       THEN ContainerNode({c[Len(c)] : c \in {x \in PathsOf(leaves) :
                             Len(x) = Len(q) + 1 /\ IsPrefix(q, x)}})
     ELSE IF q[Len(q)] = "gps" THEN GpsNode ELSE SidecarNode]

\* The children walk goes on to: none when the node is taken as a reading.
descendInto_AlsoReadings(root, pathParts) == Children(root, pathParts)

descendInto(root, pathParts) ==
  IF looksLikeReading(root[pathParts]) THEN {} ELSE Children(root, pathParts)

\* The out array of flattenReadingsTree, one entry per push.
RECURSIVE walkOut(_, _), walkEntries(_, _)
walkOut(root, pathParts) ==
  (IF looksLikeReading(root[pathParts]) THEN <<pathParts>> ELSE <<>>)
    \o walkEntries(root, descendInto(root, pathParts))

walkEntries(root, paths) ==
  IF paths = {} THEN <<>>
  ELSE LET q == CHOOSE x \in paths : TRUE
       IN walkOut(root, q) \o walkEntries(root, paths \ {q})

InitFlatten ==
  /\ input \in
       { [leaves |-> ls, root |-> NestedTreeOf(ls, ns)] :
           ls \in (SUBSET LeafPaths) \ {{}}, ns \in {{}} }
       \cup
       { [leaves |-> ls, root |-> NestedTreeOf(ls, ls)] :
           ls \in ((SUBSET LeafPaths) \ {{}}) \cup {{<<>>}} }
  /\ output = <<>>
  /\ store = <<>>
  /\ table = <<>>
  /\ uniqueGrid = TRUE
  /\ proc = [p \in Procs |-> IdleProc]
  /\ inFlight = {}
  /\ nStarts = 0
  /\ nFailures = 0
  /\ commits = [t \in EventTypes |-> 0]
  /\ aggBy = <<>>
  /\ everMigrated = {}
  /\ pool = NoPool
  /\ merged = <<>>

Flatten ==
  /\ output = <<>>
  /\ output' = [out |-> walkOut(input.root, <<>>)]
  /\ UNCHANGED <<pool, merged, input, store, table, uniqueGrid, proc, inFlight,
                 nStarts, nFailures, commits, aggBy, everMigrated>>

NextFlatten == Flatten

SpecFlatten == InitFlatten /\ [][NextFlatten]_vars

\* The node has a flag or a coordinate property.
LeafHeuristic(node) ==
  node.props \cap {"potholeFlag", "patchyFlag", "pothole", "patchy", "Latitude",
                   "Longitude", "latitude", "longitude", "lat", "lon"} # {}

\* C34: flattenReadingsTree returns exactly the nodes that satisfy the leaf
\* heuristic and have no proper ancestor satisfying it, by full path and
\* once each; no returned path is a prefix of another, no object nested in a
\* reading is returned, and every reading of the layouts is.
C34_FlattenReturnsTopmostReadings ==
  output # <<>> =>
    LET out == output.out
        root == input.root
    IN /\ {out[i] : i \in DOMAIN out}
            = {q \in DOMAIN root :
                 /\ LeafHeuristic(root[q])
                 /\ \A n \in 0..(Len(q) - 1) :
                      ~LeafHeuristic(root[SubSeq(q, 1, n)])}
       /\ \A i, j \in DOMAIN out :
            i # j => /\ out[i] # out[j]
                     /\ ~(Len(out[i]) <= Len(out[j])
                          /\ SubSeq(out[j], 1, Len(out[i])) = out[i])
       /\ \A i \in DOMAIN out :
            out[i] # <<>> => out[i][Len(out[i])] \notin {"_migration", "gps"}
       /\ \A l \in input.leaves : \E i \in DOMAIN out : out[i] = l

\* A root with a flat reading, a per-user reading and a bucketed reading,
\* each holding a sidecar and a gps object, gave those three entries.
C34_Witness ==
  /\ output # <<>>
  /\ input.leaves = {<<"r1">>, <<"u1", "readings", "r1">>,
                     <<"u2", "readings", "b1", "r2">>}
  /\ <<"r1", "gps">> \in DOMAIN input.root
  /\ Len(output.out) = 3

\* ----------------------------------------------- the watcher's discovery
\* startFlaggedReadingsWatcher over a tree of containers: leaf k lies in the
\* container input.place[k].  output holds the watcher's watchedRefs, the
\* number of listener pairs attached per container, the notifications
\* (child_added, child_changed) that listeners still have to be called with,
\* and the leaves for which a call returned at the in-flight check.
\* The leaves are alike (one payload, one grid cell) and listed by depth.
Places ==
  { <<>>, <<"u1">>, <<"u1", "readings">>, <<"u2", "readings", "b1">> }

LeafName(k) == "r" \o ToString(k)

LeafPath(k) == input.place[k] \o <<LeafName(k)>>

WatchedRoot == TreeOf({LeafPath(k) : k \in Keys})

KeyAt(path) == CHOOSE k \in Keys : LeafPath(k) = path

Notice(kind, child) == [kind |-> kind, child |-> child]

\* child_added fires once for every child the collection has.
attachListeners(out, ref) ==
  [watchedRefs |-> out.watchedRefs \cup {ref},
   listeners |-> [out.listeners EXCEPT ![ref] = @ + 1],
   notices |-> out.notices
                 \cup {Notice("handle", q) : q \in Children(WatchedRoot, ref)},
   dropped |-> out.dropped]

attachCollection_NoDedupe(out, ref) == attachListeners(out, ref)

attachCollection(out, ref) ==
  IF ref \in out.watchedRefs THEN out ELSE attachListeners(out, ref)

Taken(n) == [output EXCEPT !.notices = @ \ {n}]

startFlaggedReadingsWatcher ==
  /\ output = <<>>
  /\ output' =
       LET none == [watchedRefs |-> {},
                    listeners |-> [q \in DOMAIN WatchedRoot |-> 0],
                    notices |-> {Notice("user", q) :
                                   q \in Children(WatchedRoot, <<>>)},
                    dropped |-> {}]
       IN attachCollection(none, <<>>)
  /\ UNCHANGED <<pool, merged, input, store, table, uniqueGrid, proc, inFlight,
                 nStarts, nFailures, commits, aggBy, everMigrated>>

\* handle() called with a child that is a container: it is attached.
handleContainer(n) ==
  /\ output # <<>>
  /\ n \in output.notices
  /\ n.kind = "handle"
  /\ ~looksLikeReading(WatchedRoot[n.child])
  /\ output' = attachCollection(Taken(n), n.child)
  /\ UNCHANGED <<pool, merged, input, store, table, uniqueGrid, proc, inFlight,
                 nStarts, nFailures, commits, aggBy, everMigrated>>

\* handle() called with a leaf: dropped while the leaf is in flight.
handleLeaf(p, n) ==
  /\ output # <<>>
  /\ n \in output.notices
  /\ n.kind = "handle"
  /\ looksLikeReading(WatchedRoot[n.child])
  /\ IF inFlightHas(KeyAt(n.child))
       THEN /\ output' = [Taken(n) EXCEPT !.dropped = @ \cup {KeyAt(n.child)}]
            /\ UNCHANGED <<proc, inFlight, nStarts>>
       ELSE /\ output' = Taken(n)
            /\ handleReading(p, KeyAt(n.child), input.reprocess)
  /\ UNCHANGED <<pool, merged, input, store, table, uniqueGrid, nFailures,
                 commits, aggBy, everMigrated>>

attachIfUserHasReadings(n) ==
  LET readings == n.child \o <<"readings">>
      o1 == IF readings \in DOMAIN WatchedRoot
              THEN attachCollection(Taken(n), readings) ELSE Taken(n)
  IN /\ output # <<>>
     /\ n \in output.notices
     /\ n.kind = "user"
     /\ output' = IF looksLikeReading(WatchedRoot[n.child]) THEN Taken(n)
                  ELSE attachCollection(o1, n.child)
     /\ UNCHANGED <<pool, merged, input, store, table, uniqueGrid, proc,
                    inFlight, nStarts, nFailures, commits, aggBy, everMigrated>>

\* The listeners that a write below the leaf at path calls with
\* child_changed: those of the watched containers above it and the root's.
ChangeNotices(path) ==
  {Notice("handle", SubSeq(path, 1, i)) :
     i \in {j \in 1..Len(path) : SubSeq(path, 1, j - 1) \in output.watchedRefs}}
  \cup {Notice("user", SubSeq(path, 1, 1))}

WatchedSidecarUpdate(p) ==
  /\ output # <<>>
  /\ sidecarWrite(p)
  /\ output' = [output EXCEPT
                  !.notices = @ \cup ChangeNotices(LeafPath(proc[p].upd.key))]

InitDiscover ==
  /\ store = [k \in Keys |->
                Leaf(k, Payload(TRUE, FALSE, 1297133, 7759464, 80, 20, TRUE))]
  /\ table = <<>>
  /\ uniqueGrid \in BOOLEAN
  /\ proc = [p \in Procs |-> IdleProc]
  /\ inFlight = {}
  /\ nStarts = 0
  /\ nFailures = 0
  /\ commits = [t \in EventTypes |-> 0]
  /\ aggBy = [k \in Keys |-> [t \in EventTypes |-> 0]]
  /\ everMigrated = {}
  /\ pool = NoPool
  /\ merged = <<>>
  /\ input \in [place : [Keys -> Places], reprocess : {FALSE}]
  /\ \A k \in Keys \ {NumKeys} :
       Len(input.place[k]) <= Len(input.place[k + 1])
  /\ output = <<>>

NextDiscover ==
  \/ startFlaggedReadingsWatcher
  \/ \E n \in (IF output = <<>> THEN {} ELSE output.notices) :
       \/ handleContainer(n)
       \/ attachIfUserHasReadings(n)
       \/ \E p \in Procs :
            /\ \A q \in 1..(p - 1) : Running(proc[q])
            /\ handleLeaf(p, n)
  \/ \E p \in Procs :
       \/ /\ IngestSelect(p)
       \/ /\ IngestWrite(p)
       \/ /\ IngestCommit(p)
       \/ WatchedSidecarUpdate(p)

\* Every callback that is ready is run by the event loop, and the stores
\* answer every request.
SpecDiscover == InitDiscover /\ [][NextDiscover]_vars /\ WF_vars(NextDiscover)

Eligible(k) == WatchSkip(store[k], FALSE) = ""

Discovered(k) ==
  /\ output # <<>>
  /\ input.place[k] \in output.watchedRefs
  /\ store[k].mig.status = "migrated"
  /\ \A t \in EventTypes :
       getFlag(store[k], t \o "Flag") => aggBy[k][t] >= 1

\* C35: the watcher attaches its listeners to every container at most once,
\* and a flagged, GPS-valid, not yet migrated leaf at any depth is
\* eventually in a watched container, aggregated (one event per flag that
\* is true) and marked migrated, when no store request fails.
C35_DiscoveryComplete ==
  /\ [](output # <<>> => \A q \in DOMAIN output.listeners :
                            output.listeners[q] <= 1)
  /\ \A k \in Keys : Eligible(k) ~> Discovered(k)

\* A leaf three containers below the root has been discovered, and a
\* notification for an already watched container is pending.
C35_Witness ==
  \E k \in Keys :
    /\ Len(input.place[k]) = 3
    /\ Discovered(k)
    /\ \E n \in output.notices :
         n.kind = "handle" /\ n.child \in output.watchedRefs

\* ------------------------------------- device writes under the watcher
\* The device sets potholeFlag on a reading that has patchyFlag only: the
\* listeners above the reading are called with child_changed.
DeviceSetsFlag(k) ==
  /\ output # <<>>
  /\ store[k].patchyFlag /\ ~store[k].potholeFlag
  /\ store' = [store EXCEPT ![k].potholeFlag = TRUE]
  /\ output' = [output EXCEPT !.notices = @ \cup ChangeNotices(LeafPath(k))]
  /\ UNCHANGED <<pool, merged, input, table, uniqueGrid, proc, inFlight,
                 nStarts, nFailures, commits, aggBy, everMigrated>>

\* Reading 1 has patchyFlag only, the others have no flag; all lie in one
\* container.
InitChange ==
  /\ store = [k \in Keys |->
                Leaf(k, Payload(FALSE, k = 1, 1297134, 7759463, 30, 20, TRUE))]
  /\ table = <<>>
  /\ uniqueGrid \in BOOLEAN
  /\ proc = [p \in Procs |-> IdleProc]
  /\ inFlight = {}
  /\ nStarts = 0
  /\ nFailures = 0
  /\ commits = [t \in EventTypes |-> 0]
  /\ aggBy = [k \in Keys |-> [t \in EventTypes |-> 0]]
  /\ everMigrated = {}
  /\ pool = NoPool
  /\ merged = <<>>
  /\ \E c \in Places, r \in BOOLEAN :
       input = [place |-> [k \in Keys |-> c], reprocess |-> r]
  /\ output = <<>>

NextChange ==
  \/ NextDiscover
  \/ \E k \in Keys : DeviceSetsFlag(k)

SpecChange == InitChange /\ [][NextChange]_vars /\ WF_vars(NextDiscover)

\* No listener call is pending and no handler is running.
Quiet ==
  /\ output # <<>>
  /\ output.notices = {}
  /\ \A p \in Procs : ~Running(proc[p])

\* C36: once the watcher has nothing left to do, a reading whose change was
\* turned away at the in-flight check and that has potholeFlag set has had
\* its pothole event aggregated.
C36_ChangeNotLost ==
  Quiet =>
    \A k \in output.dropped :
      (store[k].potholeFlag /\ WatchSkip(store[k], TRUE) = "")
        => commits["pothole"] >= 1

\* ------------------------------------------- the watcher's skipped leaves
\* The watcher alone over leaf 1, flagged with a GPS lock, and leaves that
\* processFlaggedReadingSnapshot skips: no flag, a coordinate that is 0, a
\* coordinate that is not a number, no GPS lock.
SkippedPayloads ==
  { Payload(FALSE, FALSE, 1297134, 7759463, 100, 20, TRUE),
    Payload(TRUE, FALSE, 0, 7759463, 100, 20, TRUE),
    Payload(TRUE, FALSE, NaN, 7759463, 100, 20, TRUE),
    Payload(TRUE, TRUE, 1297134, 7759463, 100, 20, FALSE) }

InitSkips ==
  /\ store \in [Keys -> {Leaf(k, x) : k \in Keys,
                                       x \in FlaggedPayloads \cup SkippedPayloads}]
  /\ \A k \in Keys : store[k].ts = TsOf(k)
  /\ \E x \in FlaggedPayloads : store[1] = Leaf(1, x)
  /\ \A k \in Keys \ {1} : \E x \in SkippedPayloads : store[k] = Leaf(k, x)
  /\ table = <<>>
  /\ uniqueGrid \in BOOLEAN
  /\ proc = [p \in Procs |-> IdleProc]
  /\ inFlight = {}
  /\ nStarts = 0
  /\ nFailures = 0
  /\ commits = [t \in EventTypes |-> 0]
  /\ aggBy = [k \in Keys |-> [t \in EventTypes |-> 0]]
  /\ everMigrated = {}
  /\ pool = NoPool
  /\ merged = <<>>
  /\ input = <<>>
  /\ output = <<>>

SpecSkips == InitSkips /\ [][NextWatch]_vars

\* C37: a step of the watcher changes a leaf only by giving it the migrated
\* sidecar, the payload staying as it was, and only when the handler of
\* that leaf has had every event of the leaf committed; a step in which a
\* handler ends with a skip reason or an error changes no leaf.
C37_WatcherWritesOnlyMigrated ==
  [][/\ \A k \in Keys :
          store'[k] # store[k] =>
            /\ store'[k].mig.status = "migrated"
            /\ [store'[k] EXCEPT !.mig = NoMigration]
                 = [store[k] EXCEPT !.mig = NoMigration]
            /\ \E p \in Procs :
                 /\ Handling(p, k)
                 /\ proc[p].pc = "update"
                 /\ proc[p].nDone = Len(eventsToInsert(k, proc[p].snap[k]))
     /\ \A p \in Procs :
          (proc'[p] # proc[p] /\ proc'[p].pc = "done" /\ proc'[p].err # "")
            => store' = store]_vars

\* One handler has ended on an Aggregator failure after the leaf's first
\* event was committed, another has ended on a leaf with a zero coordinate
\* or without GPS lock, and neither leaf has a sidecar.
C37_Witness ==
  \E p, q \in Procs :
    /\ proc[p].kind = "watch" /\ proc[p].pc = "done"
    /\ proc[p].err = "storage_error"
    /\ commits["pothole"] = 1
    /\ proc[q].kind = "watch" /\ proc[q].pc = "done"
    /\ proc[q].err = "gps_not_locked_or_zero_coords"
    /\ \A k \in Keys : store[k].mig = NoMigration

\* The keys of a run's audit trail, in the order the items were pushed.
ItemKeys(items) == [i \in 1..Len(items) |-> items[i].key]

\* C38: when a batch run has ended, its audit trail has one item per
\* candidate, in processing order, and migrated + denied + errors is the
\* number of candidates.
C38_EachCandidateOnce ==
  \A p \in Procs :
    (proc[p].kind \in {"flag", "thr"} /\ proc[p].pc = "done") =>
      /\ ItemKeys(proc[p].res.items) = proc[p].cands
      /\ proc[p].res.migrated + proc[p].res.denied + proc[p].res.errors
           = proc[p].res.candidates

GpsDenials ==
  {"gps_not_locked_or_zero_coords",
   "Denied: GPS not locked (Latitude/Longitude is 0)"}

\* C39: a record with a latitude or a longitude of exactly 0 (flagged, when
\* the run is flag-driven) is denied by either batch run as GPS-not-locked,
\* whatever its other coordinate is, absent or not a number included.
C39_ZeroCoordinateIsGpsDenial ==
  \A p \in Procs :
    ( /\ FinishedRun(proc[p], "flag") \/ FinishedRun(proc[p], "thr")
      /\ store[1].lat = 0 \/ store[1].lon = 0
      /\ proc[p].kind = "flag" => (store[1].potholeFlag \/ store[1].patchyFlag) )
      => /\ ItemFor(proc[p], 1).status = "denied"
         /\ ItemFor(proc[p], 1).reason \in GpsDenials

====
